---- MODULE Spec2Model ----
(***************************************************************************)
(* The Voting contract (contracts/Voting.sol) as a state machine.          *)
(*                                                                         *)
(* State: the contract storage (pollCount, polls), the block timestamp,    *)
(* the receipt of the last transaction (the function called, its outcome,  *)
(* Ok or the revert reason, and the events it logged) and the events       *)
(* logged by all transactions so far, as a multiset: the order of the log  *)
(* is the order of the receipts.  Every                                    *)
(* external function is an operator from the pre-state, the block          *)
(* timestamp, msg.sender and the arguments to a result                     *)
(* [status, ret, st, logs]; the actions apply these operators.  Solidity   *)
(* arrays are 0-based, TLA+ sequences 1-based: Solidity's a[i] is a[i+1]   *)
(* below, and every index kept in the state (voterChoice, event fields,    *)
(* return values) is the 0-based Solidity index.                           *)
(* uint256 arithmetic is checked in Solidity 0.8 and none of the counters  *)
(* can come near 2^256 within the bounds, so plain naturals are used.      *)
(*                                                                         *)
(* The React client (frontend/src/App.js) is a second part of the state:   *)
(* the App component's state (account, the contract's signer, polls,       *)
(* isLoading, the last notification), each PollCard's local state, and the *)
(* asynchronous work in flight: the mutating handlers (createPoll, vote,   *)
(* endPoll) and the runs of loadPolls, each stopped at the await it is     *)
(* waiting on.  One action is one handler, or what runs between the        *)
(* answer to an await and the next await.  Spec runs the contract alone,   *)
(* with the client never connected; ClientSpec runs the client against     *)
(* the contract.                                                           *)
(***************************************************************************)
EXTENDS Naturals, Sequences, FiniteSets, Bags

\* ---------------------------------------------------------------- bounds
MaxPolls == 2
MaxTicks == 2
MaxShortLen == 2
MaxStoredMinutes == 1
\* the client's runs: polls it creates, background runs of loadPolls and
\* mutating handlers that the model lets be in flight at once, and the
\* times the wallet is connected with the connect button
ClientMaxPolls == 1
MaxLoads == 1
MaxRequests == 2
MaxConnects == 1

\* ------------------------------------------------------ program constants
MinOptions == 2
MaxOptions == 10
MaxDurationMinutes == 10080
MinuteSeconds == 60

\* ------------------------------------------------------------ input sets
Identities == {"alice", "bob"}
ZeroAddress == "0x0"
Questions == {"", "Q"}
Durations == (0..MaxStoredMinutes) \cup {MaxDurationMinutes, MaxDurationMinutes + 1}

OptionLabels == <<"A", "B", "C", "D", "E", "F", "G", "H", "I", "J", "K">>
OptionLengths == (0..MaxShortLen) \cup {MaxOptions, MaxOptions + 1}
\* the list of the first n labels, with the positions in blanks emptied
OptionList(n, blanks) == [i \in 1..n |-> IF i \in blanks THEN "" ELSE OptionLabels[i]]
OptionLists == {OptionList(n, b) : n \in OptionLengths, b \in SUBSET (1..MaxShortLen)}

PollIds == 0..(MaxPolls + 1)
\* the keys of the polls mapping the model keeps (every key has a value)
PollSlots == 0..(MaxPolls + 1)
OptionIndexes == (0..MaxShortLen) \cup {MaxOptions}

VARIABLES pollCount, polls, events, now, lastCall
\* the client: App's state, the cards' state, the work in flight, the run
\* of loadPolls that started last (newest), whether the displayed list is
\* the one that run read (shown), and the connections made
VARIABLES account, signer, isLoading, notification, uiPolls, cards,
          requests, loads, newest, shown, connects
clientVars == <<account, signer, isLoading, notification, uiPolls, cards,
                requests, loads, newest, shown, connects>>
vars == <<pollCount, polls, events, now, lastCall, account, signer, isLoading,
          notification, uiPolls, cards, requests, loads, newest, shown, connects>>

\* ----------------------------------------------------------- storage
\* a storage slot of the polls mapping that was never written
EmptyPoll ==
  [id |-> 0, question |-> "", options |-> <<>>, voteCounts |-> <<>>,
   creator |-> ZeroAddress, endTime |-> 0, active |-> FALSE,
   hasVoted |-> [a \in Identities |-> FALSE],
   voterChoice |-> [a \in Identities |-> 0]]

\* the contract's storage, as the operators below take and return it
Ledger == [pollCount |-> pollCount, polls |-> polls]

\* ------------------------------------------------------------- events
PollCreated(pollId, question, creator, endTime) ==
  [name |-> "PollCreated", pollId |-> pollId, question |-> question,
   who |-> creator, endTime |-> endTime, optionIndex |-> 0]
VoteCast(pollId, voter, optionIndex) ==
  [name |-> "VoteCast", pollId |-> pollId, question |-> "",
   who |-> voter, endTime |-> 0, optionIndex |-> optionIndex]
PollEnded(pollId) ==
  [name |-> "PollEnded", pollId |-> pollId, question |-> "",
   who |-> ZeroAddress, endTime |-> 0, optionIndex |-> 0]

\* ------------------------------------------------- require / return
Ok == "ok"
NoRet == 0
\* a revert that leaves the writes made so far in storage
RevertKeepsWrites(pre, cur, msg) == [status |-> msg, ret |-> NoRet, st |-> cur, logs |-> <<>>]

\* a failed require: the transaction reverts, every write it made (cur) is
\* rolled back to the state before the call (pre) and nothing is logged
Revert(pre, cur, msg) == [status |-> msg, ret |-> NoRet, st |-> pre, logs |-> <<>>]
Return(cur, ret, logs) == [status |-> Ok, ret |-> ret, st |-> cur, logs |-> logs]

\* ------------------------------------------------------------ modifiers
\* pollExists accepting the next id to be assigned
pollExistsOffByOne(S, pollId) == pollId > 0 /\ pollId <= S.pollCount + 1

pollExists(S, pollId) == pollId > 0 /\ pollId <= S.pollCount

\* pollActive with its two requires in the other order
pollActiveTimeFirst(S, t, pollId) ==
  IF ~(t < S.polls[pollId].endTime) THEN "Poll has ended"
  ELSE IF ~S.polls[pollId].active THEN "Poll is not active"
  ELSE ""

\* pollActive with the deadline itself still open (<= for <)
pollActiveInclusive(S, t, pollId) ==
  IF ~S.polls[pollId].active THEN "Poll is not active"
  ELSE IF ~(t <= S.polls[pollId].endTime) THEN "Poll has ended"
  ELSE ""

\* pollActive without its require on the time
pollActiveFlagOnly(S, t, pollId) ==
  IF ~S.polls[pollId].active THEN "Poll is not active"
  ELSE ""

\* the modifier's two requires; "" when both pass
pollActive(S, t, pollId) ==
  IF ~S.polls[pollId].active THEN "Poll is not active"
  ELSE IF ~(t < S.polls[pollId].endTime) THEN "Poll has ended"
  ELSE ""

\* hasNotVoted over all polls: one vote per identity in the whole contract
hasNotVotedAnywhere(S, sender, pollId) ==
  \A q \in 1..S.pollCount : ~S.polls[q].hasVoted[sender]

\* hasNotVoted reading the choice instead of the flag
hasNotVotedByChoice(S, sender, pollId) == S.polls[pollId].voterChoice[sender] = 0

hasNotVoted(S, sender, pollId) == ~S.polls[pollId].hasVoted[sender]

\* ----------------------------------------------------------- createPoll
\* the loop of createPoll without voteCounts.push(0)
RECURSIVE PushOptionsNoCounts(_, _, _, _)
PushOptionsNoCounts(S, n, opts, i) ==
  IF i > Len(opts) THEN [ok |-> TRUE, st |-> S]
  ELSE IF opts[i] = "" THEN [ok |-> FALSE, st |-> S]
  ELSE PushOptionsNoCounts(
         [S EXCEPT !.polls[n].options = Append(@, opts[i])], n, opts, i + 1)

\* the loop of createPoll from index i (1-based) on: [ok, st]
RECURSIVE PushOptions(_, _, _, _)
PushOptions(S, n, opts, i) ==
  IF i > Len(opts) THEN [ok |-> TRUE, st |-> S]
  ELSE IF opts[i] = "" THEN [ok |-> FALSE, st |-> S]
  ELSE PushOptions(
         [S EXCEPT !.polls[n].options = Append(@, opts[i]),
                   !.polls[n].voteCounts = Append(@, 0)],
         n, opts, i + 1)

\* createPoll with the duration requires before the option count requires
createPollDurationFirst(S, t, sender, question, opts, duration) ==
  IF question = "" THEN Revert(S, S, "Question cannot be empty")
  ELSE IF ~(duration > 0) THEN Revert(S, S, "Duration must be positive")
  ELSE IF ~(duration <= MaxDurationMinutes) THEN Revert(S, S, "Max duration is 7 days")
  ELSE IF ~(Len(opts) >= MinOptions) THEN Revert(S, S, "Need at least 2 options")
  ELSE IF ~(Len(opts) <= MaxOptions) THEN Revert(S, S, "Maximum 10 options allowed")
  ELSE
    LET n == S.pollCount + 1
        S1 == [S EXCEPT !.pollCount = n,
                        !.polls[n].id = n,
                        !.polls[n].question = question,
                        !.polls[n].creator = sender,
                        !.polls[n].endTime = t + duration * MinuteSeconds,
                        !.polls[n].active = TRUE]
        R == PushOptions(S1, n, opts, 1)
    IN IF ~R.ok THEN Revert(S, R.st, "Option cannot be empty")
       ELSE Return(R.st, R.st.pollCount,
                   <<PollCreated(R.st.pollCount, question, sender,
                                 R.st.polls[n].endTime)>>)

\* createPoll without pollCount++: the new poll takes the last id
createPollKeepsCount(S, t, sender, question, opts, duration) ==
  IF question = "" THEN Revert(S, S, "Question cannot be empty")
  ELSE IF ~(Len(opts) >= MinOptions) THEN Revert(S, S, "Need at least 2 options")
  ELSE IF ~(Len(opts) <= MaxOptions) THEN Revert(S, S, "Maximum 10 options allowed")
  ELSE IF ~(duration > 0) THEN Revert(S, S, "Duration must be positive")
  ELSE IF ~(duration <= MaxDurationMinutes) THEN Revert(S, S, "Max duration is 7 days")
  ELSE
    LET n == S.pollCount
        S1 == [S EXCEPT !.pollCount = n,
                        !.polls[n].id = n,
                        !.polls[n].question = question,
                        !.polls[n].creator = sender,
                        !.polls[n].endTime = t + duration * MinuteSeconds,
                        !.polls[n].active = TRUE]
        R == PushOptions(S1, n, opts, 1)
    IN IF ~R.ok THEN Revert(S, R.st, "Option cannot be empty")
       ELSE Return(R.st, R.st.pollCount,
                   <<PollCreated(R.st.pollCount, question, sender,
                                 R.st.polls[n].endTime)>>)

\* createPoll that accepts a single option
createPollOneOption(S, t, sender, question, opts, duration) ==
  IF question = "" THEN Revert(S, S, "Question cannot be empty")
  ELSE IF ~(Len(opts) >= 1) THEN Revert(S, S, "Need at least 2 options")
  ELSE IF ~(Len(opts) <= MaxOptions) THEN Revert(S, S, "Maximum 10 options allowed")
  ELSE IF ~(duration > 0) THEN Revert(S, S, "Duration must be positive")
  ELSE IF ~(duration <= MaxDurationMinutes) THEN Revert(S, S, "Max duration is 7 days")
  ELSE
    LET n == S.pollCount + 1
        S1 == [S EXCEPT !.pollCount = n,
                        !.polls[n].id = n,
                        !.polls[n].question = question,
                        !.polls[n].creator = sender,
                        !.polls[n].endTime = t + duration * MinuteSeconds,
                        !.polls[n].active = TRUE]
        R == PushOptions(S1, n, opts, 1)
    IN IF ~R.ok THEN Revert(S, R.st, "Option cannot be empty")
       ELSE Return(R.st, R.st.pollCount,
                   <<PollCreated(R.st.pollCount, question, sender,
                                 R.st.polls[n].endTime)>>)

\* createPoll that takes the duration for seconds
createPollSeconds(S, t, sender, question, opts, duration) ==
  IF question = "" THEN Revert(S, S, "Question cannot be empty")
  ELSE IF ~(Len(opts) >= MinOptions) THEN Revert(S, S, "Need at least 2 options")
  ELSE IF ~(Len(opts) <= MaxOptions) THEN Revert(S, S, "Maximum 10 options allowed")
  ELSE IF ~(duration > 0) THEN Revert(S, S, "Duration must be positive")
  ELSE IF ~(duration <= MaxDurationMinutes) THEN Revert(S, S, "Max duration is 7 days")
  ELSE
    LET n == S.pollCount + 1
        S1 == [S EXCEPT !.pollCount = n,
                        !.polls[n].id = n,
                        !.polls[n].question = question,
                        !.polls[n].creator = sender,
                        !.polls[n].endTime = t + duration,
                        !.polls[n].active = TRUE]
        R == PushOptions(S1, n, opts, 1)
    IN IF ~R.ok THEN Revert(S, R.st, "Option cannot be empty")
       ELSE Return(R.st, R.st.pollCount,
                   <<PollCreated(R.st.pollCount, question, sender,
                                 R.st.polls[n].endTime)>>)

createPoll(S, t, sender, question, opts, duration) ==
  IF question = "" THEN Revert(S, S, "Question cannot be empty")
  ELSE IF ~(Len(opts) >= MinOptions) THEN Revert(S, S, "Need at least 2 options")
  ELSE IF ~(Len(opts) <= MaxOptions) THEN Revert(S, S, "Maximum 10 options allowed")
  ELSE IF ~(duration > 0) THEN Revert(S, S, "Duration must be positive")
  ELSE IF ~(duration <= MaxDurationMinutes) THEN Revert(S, S, "Max duration is 7 days")
  ELSE
    LET n == S.pollCount + 1
        S1 == [S EXCEPT !.pollCount = n,
                        !.polls[n].id = n,
                        !.polls[n].question = question,
                        !.polls[n].creator = sender,
                        !.polls[n].endTime = t + duration * MinuteSeconds,
                        !.polls[n].active = TRUE]
        R == PushOptions(S1, n, opts, 1)
    IN IF ~R.ok THEN Revert(S, R.st, "Option cannot be empty")
       ELSE Return(R.st, R.st.pollCount,
                   <<PollCreated(R.st.pollCount, question, sender,
                                 R.st.polls[n].endTime)>>)

\* ----------------------------------------------------------------- vote
\* vote counting the ballot twice
voteCountsTwice(S, t, sender, pollId, optionIndex) ==
  IF ~pollExists(S, pollId) THEN Revert(S, S, "Poll does not exist")
  ELSE IF pollActive(S, t, pollId) # "" THEN Revert(S, S, pollActive(S, t, pollId))
  ELSE IF ~hasNotVoted(S, sender, pollId) THEN Revert(S, S, "Already voted")
  ELSE IF ~(optionIndex < Len(S.polls[pollId].options)) THEN Revert(S, S, "Invalid option")
  ELSE Return(
         [S EXCEPT !.polls[pollId].hasVoted[sender] = TRUE,
                   !.polls[pollId].voterChoice[sender] = optionIndex,
                   !.polls[pollId].voteCounts[optionIndex + 1] = @ + 2],
         NoRet, <<VoteCast(pollId, sender, optionIndex)>>)

\* vote without poll.voterChoice[msg.sender] = _optionIndex
voteForgetsChoice(S, t, sender, pollId, optionIndex) ==
  IF ~pollExists(S, pollId) THEN Revert(S, S, "Poll does not exist")
  ELSE IF pollActive(S, t, pollId) # "" THEN Revert(S, S, pollActive(S, t, pollId))
  ELSE IF ~hasNotVoted(S, sender, pollId) THEN Revert(S, S, "Already voted")
  ELSE IF ~(optionIndex < Len(S.polls[pollId].options)) THEN Revert(S, S, "Invalid option")
  ELSE Return(
         [S EXCEPT !.polls[pollId].hasVoted[sender] = TRUE,
                   !.polls[pollId].voteCounts[optionIndex + 1] = @ + 1],
         NoRet, <<VoteCast(pollId, sender, optionIndex)>>)

\* vote without its require on _optionIndex: the array access panics instead
votePanicsOnBadOption(S, t, sender, pollId, optionIndex) ==
  IF ~pollExists(S, pollId) THEN Revert(S, S, "Poll does not exist")
  ELSE IF pollActive(S, t, pollId) # "" THEN Revert(S, S, pollActive(S, t, pollId))
  ELSE IF ~hasNotVoted(S, sender, pollId) THEN Revert(S, S, "Already voted")
  ELSE IF ~(optionIndex < Len(S.polls[pollId].voteCounts)) THEN Revert(S, S, "panic 0x32")
  ELSE Return(
         [S EXCEPT !.polls[pollId].hasVoted[sender] = TRUE,
                   !.polls[pollId].voterChoice[sender] = optionIndex,
                   !.polls[pollId].voteCounts[optionIndex + 1] = @ + 1],
         NoRet, <<VoteCast(pollId, sender, optionIndex)>>)

\* vote that records the voter before checking the option, and keeps the
\* record when the option is rejected
voteMarksThenRejects(S, t, sender, pollId, optionIndex) ==
  IF ~pollExists(S, pollId) THEN Revert(S, S, "Poll does not exist")
  ELSE IF pollActive(S, t, pollId) # "" THEN Revert(S, S, pollActive(S, t, pollId))
  ELSE IF ~hasNotVoted(S, sender, pollId) THEN Revert(S, S, "Already voted")
  ELSE IF ~(optionIndex < Len(S.polls[pollId].options))
       THEN [status |-> "Invalid option", ret |-> NoRet,
             st |-> [S EXCEPT !.polls[pollId].hasVoted[sender] = TRUE], logs |-> <<>>]
  ELSE Return(
         [S EXCEPT !.polls[pollId].hasVoted[sender] = TRUE,
                   !.polls[pollId].voterChoice[sender] = optionIndex,
                   !.polls[pollId].voteCounts[optionIndex + 1] = @ + 1],
         NoRet, <<VoteCast(pollId, sender, optionIndex)>>)

\* vote emitting VoteCast twice
voteLogsTwice(S, t, sender, pollId, optionIndex) ==
  IF ~pollExists(S, pollId) THEN Revert(S, S, "Poll does not exist")
  ELSE IF pollActive(S, t, pollId) # "" THEN Revert(S, S, pollActive(S, t, pollId))
  ELSE IF ~hasNotVoted(S, sender, pollId) THEN Revert(S, S, "Already voted")
  ELSE IF ~(optionIndex < Len(S.polls[pollId].options)) THEN Revert(S, S, "Invalid option")
  ELSE Return(
         [S EXCEPT !.polls[pollId].hasVoted[sender] = TRUE,
                   !.polls[pollId].voterChoice[sender] = optionIndex,
                   !.polls[pollId].voteCounts[optionIndex + 1] = @ + 1],
         NoRet, <<VoteCast(pollId, sender, optionIndex), VoteCast(pollId, sender, optionIndex)>>)

vote(S, t, sender, pollId, optionIndex) ==
  IF ~pollExists(S, pollId) THEN Revert(S, S, "Poll does not exist")
  ELSE IF pollActive(S, t, pollId) # "" THEN Revert(S, S, pollActive(S, t, pollId))
  ELSE IF ~hasNotVoted(S, sender, pollId) THEN Revert(S, S, "Already voted")
  ELSE IF ~(optionIndex < Len(S.polls[pollId].options)) THEN Revert(S, S, "Invalid option")
  ELSE Return(
         [S EXCEPT !.polls[pollId].hasVoted[sender] = TRUE,
                   !.polls[pollId].voterChoice[sender] = optionIndex,
                   !.polls[pollId].voteCounts[optionIndex + 1] = @ + 1],
         NoRet, <<VoteCast(pollId, sender, optionIndex)>>)

\* -------------------------------------------------------------- endPoll
\* endPoll with its two requires in the other order
endPollEndedFirst(S, sender, pollId) ==
  IF ~pollExists(S, pollId) THEN Revert(S, S, "Poll does not exist")
  ELSE IF ~S.polls[pollId].active THEN Revert(S, S, "Poll already ended")
  ELSE IF sender # S.polls[pollId].creator THEN Revert(S, S, "Only creator can end poll")
  ELSE Return(
         [S EXCEPT !.polls[pollId].active = FALSE],
         NoRet, <<PollEnded(pollId)>>)

\* endPoll that also requires the deadline not to be reached
endPollBeforeDeadline(S, sender, pollId) ==
  IF ~pollExists(S, pollId) THEN Revert(S, S, "Poll does not exist")
  ELSE IF sender # S.polls[pollId].creator THEN Revert(S, S, "Only creator can end poll")
  ELSE IF ~S.polls[pollId].active THEN Revert(S, S, "Poll already ended")
  ELSE IF ~(now < S.polls[pollId].endTime) THEN Revert(S, S, "Poll has ended")
  ELSE Return(
         [S EXCEPT !.polls[pollId].active = FALSE],
         NoRet, <<PollEnded(pollId)>>)

\* endPoll that also overwrites endTime
endPollZeroesEndTime(S, sender, pollId) ==
  IF ~pollExists(S, pollId) THEN Revert(S, S, "Poll does not exist")
  ELSE IF sender # S.polls[pollId].creator THEN Revert(S, S, "Only creator can end poll")
  ELSE IF ~S.polls[pollId].active THEN Revert(S, S, "Poll already ended")
  ELSE Return(
         [S EXCEPT !.polls[pollId].active = FALSE, !.polls[pollId].endTime = 0],
         NoRet, <<PollEnded(pollId)>>)

\* endPoll that reopens an ended poll for its creator
endPollReopens(S, sender, pollId) ==
  IF ~pollExists(S, pollId) THEN Revert(S, S, "Poll does not exist")
  ELSE IF sender # S.polls[pollId].creator THEN Revert(S, S, "Only creator can end poll")
  ELSE IF ~S.polls[pollId].active
       THEN Return([S EXCEPT !.polls[pollId].active = TRUE], NoRet, <<>>)
  ELSE Return(
         [S EXCEPT !.polls[pollId].active = FALSE],
         NoRet, <<PollEnded(pollId)>>)

endPoll(S, sender, pollId) ==
  IF ~pollExists(S, pollId) THEN Revert(S, S, "Poll does not exist")
  ELSE IF sender # S.polls[pollId].creator THEN Revert(S, S, "Only creator can end poll")
  ELSE IF ~S.polls[pollId].active THEN Revert(S, S, "Poll already ended")
  ELSE Return(
         [S EXCEPT !.polls[pollId].active = FALSE],
         NoRet, <<PollEnded(pollId)>>)

\* ---------------------------------------------------------------- views
\* A view call is no transaction: it reads the storage at the block
\* timestamp and returns [status, ret], and leaves no receipt.
ViewRevert(msg) == [status |-> msg, ret |-> NoRet]
ViewReturn(ret) == [status |-> Ok, ret |-> ret]

\* the loop of getPoll: total of counts from index i (1-based) on
RECURSIVE TotalFrom(_, _, _)
TotalFrom(counts, i, total) ==
  IF i > Len(counts) THEN total
  ELSE TotalFrom(counts, i + 1, total + counts[i])

\* getPoll with the comparison of the time turned around
getPollComparisonFlipped(S, t, pollId) ==
  IF ~pollExists(S, pollId) THEN ViewRevert("Poll does not exist")
  ELSE LET poll == S.polls[pollId]
       IN ViewReturn(
            [id |-> poll.id, question |-> poll.question, options |-> poll.options,
             voteCounts |-> poll.voteCounts, creator |-> poll.creator,
             endTime |-> poll.endTime,
             active |-> poll.active /\ t >= poll.endTime,
             totalVotes |-> TotalFrom(poll.voteCounts, 1, 0)])

\* getPoll that returns the stored flag without looking at the time
getPollStoredFlag(S, t, pollId) ==
  IF ~pollExists(S, pollId) THEN ViewRevert("Poll does not exist")
  ELSE LET poll == S.polls[pollId]
       IN ViewReturn(
            [id |-> poll.id, question |-> poll.question, options |-> poll.options,
             voteCounts |-> poll.voteCounts, creator |-> poll.creator,
             endTime |-> poll.endTime,
             active |-> poll.active,
             totalVotes |-> TotalFrom(poll.voteCounts, 1, 0)])

getPoll(S, t, pollId) ==
  IF ~pollExists(S, pollId) THEN ViewRevert("Poll does not exist")
  ELSE LET poll == S.polls[pollId]
       IN ViewReturn(
            [id |-> poll.id, question |-> poll.question, options |-> poll.options,
             voteCounts |-> poll.voteCounts, creator |-> poll.creator,
             endTime |-> poll.endTime,
             active |-> poll.active /\ t < poll.endTime,
             totalVotes |-> TotalFrom(poll.voteCounts, 1, 0)])

hasVoted(S, pollId, voter) ==
  IF ~pollExists(S, pollId) THEN ViewRevert("Poll does not exist")
  ELSE ViewReturn(S.polls[pollId].hasVoted[voter])

\* getVoterChoice without its require on hasVoted
getVoterChoiceUnchecked(S, pollId, voter) ==
  IF ~pollExists(S, pollId) THEN ViewRevert("Poll does not exist")
  ELSE ViewReturn(S.polls[pollId].voterChoice[voter])

getVoterChoice(S, pollId, voter) ==
  IF ~pollExists(S, pollId) THEN ViewRevert("Poll does not exist")
  ELSE IF ~S.polls[pollId].hasVoted[voter] THEN ViewRevert("Address has not voted")
  ELSE ViewReturn(S.polls[pollId].voterChoice[voter])

\* first pass of getActivePolls: the number of active polls among i..pollCount
RECURSIVE CountActive(_, _, _, _)
CountActive(S, t, i, activeCount) ==
  IF i > S.pollCount THEN activeCount
  ELSE CountActive(S, t, i + 1,
         IF S.polls[i].active /\ t < S.polls[i].endTime
         THEN activeCount + 1 ELSE activeCount)

\* second pass: fill activePollIds (index is 0-based) from poll i on
RECURSIVE CollectActive(_, _, _, _, _)
CollectActive(S, t, i, activePollIds, index) ==
  IF i > S.pollCount THEN activePollIds
  ELSE IF S.polls[i].active /\ t < S.polls[i].endTime
       THEN CollectActive(S, t, i + 1,
                          [activePollIds EXCEPT ![index + 1] = i], index + 1)
       ELSE CollectActive(S, t, i + 1, activePollIds, index)

\* getActivePolls that lists every poll whose stored flag is true
getActivePollsStoredFlag(S, t) ==
  LET activeCount == CountActive(S, 0, 1, 0)
  IN ViewReturn(CollectActive(S, 0, 1, [k \in 1..activeCount |-> 0], 0))

getActivePolls(S, t) ==
  LET activeCount == CountActive(S, t, 1, 0)
  IN ViewReturn(CollectActive(S, t, 1, [k \in 1..activeCount |-> 0], 0))

\* the loop of getWinner with >= : a later tied option takes the lead
RECURSIVE ScanWinnerLastMax(_, _, _, _)
ScanWinnerLastMax(counts, i, maxVotes, winnerIndex) ==
  IF ~(i < Len(counts)) THEN <<maxVotes, winnerIndex>>
  ELSE IF counts[i + 1] >= maxVotes
       THEN ScanWinnerLastMax(counts, i + 1, counts[i + 1], i)
       ELSE ScanWinnerLastMax(counts, i + 1, maxVotes, winnerIndex)

\* the loop of getWinner from index i (0-based) on: <<maxVotes, winnerIndex>>
RECURSIVE ScanWinner(_, _, _, _)
ScanWinner(counts, i, maxVotes, winnerIndex) ==
  IF ~(i < Len(counts)) THEN <<maxVotes, winnerIndex>>
  ELSE IF counts[i + 1] > maxVotes
       THEN ScanWinner(counts, i + 1, counts[i + 1], i)
       ELSE ScanWinner(counts, i + 1, maxVotes, winnerIndex)

getWinner(S, pollId) ==
  IF ~pollExists(S, pollId) THEN ViewRevert("Poll does not exist")
  ELSE LET poll == S.polls[pollId]
           w == ScanWinner(poll.voteCounts, 0, 0, 0)
       IN ViewReturn(
            [winningOption |-> w[2],
             winningOptionText |-> poll.options[w[2] + 1],
             winningVoteCount |-> w[1]])

\* --------------------------------------------------------------- client
\* useState(null) for account and contract
NoAccount == "none"
Accounts == Identities \cup {NoAccount}

\* what the create form submits: a question, the non-empty options (at
\* least two) and the duration, 60 minutes unless changed
FormQuestion == "Q"
FormOptions == OptionList(MinOptions, {})
FormDefaultDuration == 60

NoNotification == [type |-> "none", message |-> ""]
Notify(message, type) == [type |-> type, message |-> message]

InfoMessage(kind) ==
  CASE kind = "createPoll" -> "Creating poll... Please wait for confirmation"
    [] kind = "vote" -> "Casting vote... Please wait for confirmation"
    [] kind = "endPoll" -> "Ending poll... Please wait for confirmation"

SuccessMessage(kind) ==
  CASE kind = "createPoll" -> "Poll created successfully!"
    [] kind = "vote" -> "Vote cast successfully!"
    [] kind = "endPoll" -> "Poll ended successfully!"

\* error.reason || '...': reason "" stands for an error without reason
ErrorMessage(kind, reason) ==
  IF reason # "" THEN reason
  ELSE CASE kind = "createPoll" -> "Failed to create poll"
         [] kind = "vote" -> "Failed to cast vote"
         [] kind = "endPoll" -> "Failed to end poll"

\* a run of loadPolls, stopped at the await named by pc
IdleRun ==
  [pc |-> "idle", acct |-> NoAccount, n |-> 0, i |-> 0,
   loaded |-> <<>>, pollData |-> <<>>]
StartedRun(acct) == [IdleRun EXCEPT !.pc = "pollCount", !.acct = acct]

\* the object loadPolls pushes for a poll
UiPoll(pollData, voted) ==
  [id |-> pollData.id, question |-> pollData.question, options |-> pollData.options,
   voteCounts |-> pollData.voteCounts, creator |-> pollData.creator,
   endTime |-> pollData.endTime, active |-> pollData.active,
   totalVotes |-> pollData.totalVotes, hasVoted |-> voted]

\* loadedPolls.sort((a, b) => b.id - a.id)
RECURSIVE SortByIdDescending(_)
SortByIdDescending(q) ==
  IF q = <<>> THEN <<>>
  ELSE LET k == CHOOSE k \in 1..Len(q) : \A j \in 1..Len(q) : q[j].id <= q[k].id
       IN <<q[k]>> \o SortByIdDescending(SubSeq(q, 1, k - 1) \o SubSeq(q, k + 1, Len(q)))

\* the end of an iteration of loadPolls' loop, after the push: the next
\* getPoll, or the sort and setPolls
NextIteration(run, pushed) ==
  IF run.i + 1 <= run.n
  THEN [run |-> [run EXCEPT !.pc = "getPoll", !.i = run.i + 1,
                            !.loaded = pushed, !.pollData = <<>>],
        result |-> "more", polls |-> <<>>]
  ELSE [run |-> IdleRun, result |-> "set", polls |-> SortByIdDescending(pushed)]

\* loadPolls from the answer to the await it is stopped at up to its next
\* await or its end: [run, result, polls], result "more" (stopped again),
\* "set" (setPolls(polls) was called) or "failed" (the catch)
LoadStep(run, S, t) ==
  CASE run.pc = "pollCount" ->
         IF 1 <= S.pollCount
         THEN [run |-> [run EXCEPT !.pc = "getPoll", !.n = S.pollCount, !.i = 1],
               result |-> "more", polls |-> <<>>]
         ELSE [run |-> IdleRun, result |-> "set", polls |-> SortByIdDescending(<<>>)]
    [] run.pc = "getPoll" ->
         LET g == getPoll(S, t, run.i)
         IN IF g.status # Ok
            THEN [run |-> IdleRun, result |-> "failed", polls |-> <<>>]
            ELSE IF run.acct # NoAccount
            THEN [run |-> [run EXCEPT !.pc = "hasVoted", !.pollData = <<g.ret>>],
                  result |-> "more", polls |-> <<>>]
            ELSE NextIteration(run, Append(run.loaded, UiPoll(g.ret, FALSE)))
    [] run.pc = "hasVoted" ->
         LET h == hasVoted(S, run.i, run.acct)
         IN IF h.status # Ok
            THEN [run |-> IdleRun, result |-> "failed", polls |-> <<>>]
            ELSE NextIteration(run, Append(run.loaded, UiPoll(run.pollData[1], h.ret)))

\* a PollCard's local state; selectedOption is {} for null, {k} for k
CardIds == 1..ClientMaxPolls
Unmounted == [mounted |-> FALSE, hasVoted |-> FALSE, selectedOption |-> {}]
ShownIds(list) == {list[k].id : k \in 1..Len(list)}
UiPollOf(list, p) == list[CHOOSE k \in 1..Len(list) : list[k].id = p]

\* the cards after a render: PollList is rendered when account is set, with
\* one card per poll of the list, keyed by the poll's id; a card that was
\* mounted keeps its state, a new one starts from useState(poll.hasVoted)
Render(cs, list, acct) ==
  [p \in CardIds |->
     IF acct # NoAccount /\ p \in ShownIds(list)
     THEN IF cs[p].mounted THEN cs[p]
          ELSE [mounted |-> TRUE, hasVoted |-> UiPollOf(list, p).hasVoted,
                selectedOption |-> {}]
     ELSE Unmounted]

\* handleVote's setHasVoted(true), on a card that is still mounted
SetHasVoted(cs, p) ==
  [cs EXCEPT ![p] = IF @.mounted THEN [@ EXCEPT !.hasVoted = TRUE] ELSE @]

\* a mutating handler of App, stopped at the await named by pc: "submit"
\* (contract.f(...)), "wait" (tx.wait()) or "load" (loadPolls(), in run)
IdleRequest ==
  [kind |-> "none", pc |-> "idle", pollId |-> 0, optionIndex |-> 0,
   from |-> NoAccount, acct |-> NoAccount, run |-> IdleRun]
RequestSlots == 1..MaxRequests
LoadSlots == 1..MaxLoads

\* the transaction a handler sends, applied to the ledger S at time t
CallOf(req, S, t) ==
  CASE req.kind = "createPoll" ->
         createPoll(S, t, req.from, FormQuestion, FormOptions, FormDefaultDuration)
    [] req.kind = "vote" -> vote(S, t, req.from, req.pollId, req.optionIndex)
    [] req.kind = "endPoll" -> endPoll(S, req.from, req.pollId)

\* which run of loadPolls started last
NoRun == [kind |-> "none", slot |-> 0]
BackgroundRun(k) == [kind |-> "background", slot |-> k]
RequestRun(k) == [kind |-> "request", slot |-> k]

ClientInit ==
  /\ account = NoAccount
  /\ signer = NoAccount
  /\ isLoading = FALSE
  /\ notification = NoNotification
  /\ uiPolls = <<>>
  /\ cards = [p \in CardIds |-> Unmounted]
  /\ requests = [k \in RequestSlots |-> IdleRequest]
  /\ loads = [k \in LoadSlots |-> IdleRun]
  /\ newest = NoRun
  /\ shown = FALSE
  /\ connects = 0

\* ---------------------------------------------------------------- state
Init ==
  /\ pollCount = 0
  /\ polls = [i \in PollSlots |-> EmptyPoll]
  /\ events = EmptyBag
  /\ now = 0
  /\ lastCall = [op |-> "deploy", status |-> Ok, logs |-> <<>>]
  /\ ClientInit

\* the events of a receipt, as a multiset
LogBag(logs) ==
  [e \in {logs[k] : k \in 1..Len(logs)} |->
     Cardinality({k \in 1..Len(logs) : logs[k] = e})]

\* a transaction: the storage becomes the result's, the receipt records the
\* function, its outcome and its logs, and the logs join the contract's log
Commit(op, r) ==
  /\ pollCount' = r.st.pollCount
  /\ polls' = r.st.polls
  /\ events' = events (+) LogBag(r.logs)
  /\ lastCall' = [op |-> op, status |-> r.status, logs |-> r.logs]
  /\ UNCHANGED now

\* The model stores at most MaxPolls polls, of at most MaxShortLen options and
\* at most MaxStoredMinutes minutes (with MaxTicks ticks of a minute, a longer
\* poll behaves as one created at the last tick: it never expires).  Calls
\* beyond these bounds are evaluated in every reachable state by the claims
\* that quantify over createPoll's inputs, but their polls are not stored.
CreatePoll ==
  /\ pollCount < MaxPolls
  /\ \E sender \in Identities, question \in Questions,
        opts \in OptionLists, duration \in Durations :
       LET r == createPoll(Ledger, now, sender, question, opts, duration)
       IN /\ r.status = Ok => Len(opts) <= MaxShortLen /\ duration <= MaxStoredMinutes
          /\ Commit("createPoll", r)
  /\ UNCHANGED clientVars

Vote ==
  /\ \E sender \in Identities, pollId \in PollIds, optionIndex \in OptionIndexes :
       Commit("vote", vote(Ledger, now, sender, pollId, optionIndex))
  /\ UNCHANGED clientVars

EndPoll ==
  /\ \E sender \in Identities, pollId \in PollIds :
       Commit("endPoll", endPoll(Ledger, sender, pollId))
  /\ UNCHANGED clientVars

\* a later block: block.timestamp advances by a minute
Tick ==
  /\ now < MaxTicks * MinuteSeconds
  /\ now' = now + MinuteSeconds
  /\ lastCall' = [op |-> "tick", status |-> Ok, logs |-> <<>>]
  /\ UNCHANGED <<pollCount, polls, events>>
  /\ UNCHANGED clientVars

Next == CreatePoll \/ Vote \/ EndPoll \/ Tick

Spec == Init /\ [][Next]_vars

TypeOK ==
  /\ pollCount \in 0..MaxPolls
  /\ now \in 0..(MaxTicks * MinuteSeconds)
  /\ \A i \in PollSlots : i > pollCount => polls[i] = EmptyPoll

\* ------------------------------------------------------- client actions
ledgerVars == <<pollCount, polls, events, now, lastCall>>

\* a run of loadPolls starts outside a mutating handler (the effect on
\* [loadPolls], the 30 s interval) in the first free slot
StartBackgroundRun(acct) ==
  \E k \in LoadSlots :
    /\ loads[k].pc = "idle"
    /\ \A j \in 1..(k - 1) : loads[j].pc # "idle"
    /\ loads' = [loads EXCEPT ![k] = StartedRun(acct)]
    /\ newest' = BackgroundRun(k)
    /\ shown' = FALSE

\* whether the displayed list is the one read by the run that started
\* last, after run r has called setPolls(list): it is if r is that run, and
\* if that run's list was displayed and r's list is the same
ShownAfter(r, list) == newest = r \/ (shown /\ list = uiPolls)

\* setPolls(list), and the render that follows
SetPolls(list) ==
  /\ uiPolls' = list
  /\ cards' = Render(cards, list, account)

\* connectWallet: the wallet answers with an account, or the request fails
ConnectWallet ==
  /\ account = NoAccount
  /\ connects < MaxConnects
  /\ \/ \E a \in Identities :
          /\ account' = a
          /\ signer' = a
          /\ connects' = connects + 1
          /\ notification' = Notify("Wallet connected successfully!", "success")
          /\ cards' = Render(cards, uiPolls, a)
          /\ StartBackgroundRun(a)
          /\ UNCHANGED <<isLoading, uiPolls, requests>>
     \/ /\ notification' = Notify("Failed to connect wallet", "error")
        /\ UNCHANGED <<account, signer, isLoading, uiPolls, cards, requests,
                       loads, newest, shown, connects>>
  /\ UNCHANGED ledgerVars

\* the wallet's accountsChanged event; loadPolls depends on [contract,
\* account], so the effect on [loadPolls] runs it again
AccountsChanged ==
  /\ \E a \in Accounts :
       /\ a # account
       /\ IF a # NoAccount
          THEN /\ account' = a
               /\ signer' = signer
               /\ cards' = Render(cards, uiPolls, a)
               /\ IF signer # NoAccount THEN StartBackgroundRun(a)
                  ELSE UNCHANGED <<loads, newest, shown>>
          ELSE /\ account' = NoAccount
               /\ signer' = NoAccount
               /\ cards' = Render(cards, uiPolls, NoAccount)
               /\ UNCHANGED <<loads, newest, shown>>
  /\ UNCHANGED <<isLoading, notification, uiPolls, requests, connects>>
  /\ UNCHANGED ledgerVars

\* setInterval(loadPolls, 30000)
TimerFires ==
  /\ signer # NoAccount
  /\ StartBackgroundRun(account)
  /\ UNCHANGED <<account, signer, isLoading, notification, uiPolls, cards,
                 requests, connects>>
  /\ UNCHANGED ledgerVars

\* the host answers the await of a background run
BackgroundAnswer ==
  /\ \E k \in LoadSlots :
       /\ loads[k].pc # "idle"
       /\ LET r == LoadStep(loads[k], Ledger, now)
          IN /\ loads' = [loads EXCEPT ![k] = r.run]
             /\ IF r.result = "set"
                THEN SetPolls(r.polls) /\ shown' = ShownAfter(BackgroundRun(k), r.polls)
                ELSE UNCHANGED <<uiPolls, cards, shown>>
  /\ UNCHANGED <<account, signer, isLoading, notification, requests, newest,
                 connects>>
  /\ UNCHANGED ledgerVars

\* the JSX conditions of PollCard's buttons and of the form's button
VoteButtonShown(p) ==
  /\ cards[p].mounted
  /\ UiPollOf(uiPolls, p).active
  /\ ~cards[p].hasVoted
VoteButtonDisabled(p) == cards[p].selectedOption = {} \/ isLoading
EndButtonShown(p) ==
  /\ cards[p].mounted
  /\ UiPollOf(uiPolls, p).active
  /\ account # NoAccount /\ UiPollOf(uiPolls, p).creator = account
\* the end button that stays enabled while loading
EndButtonNeverDisabled == FALSE

EndButtonDisabled == isLoading
SubmitButtonDisabled == isLoading

\* onClick of an option
SelectOption ==
  /\ \E p \in CardIds :
       /\ cards[p].mounted
       /\ ~cards[p].hasVoted
       /\ UiPollOf(uiPolls, p).active
       /\ \E i \in 0..(Len(UiPollOf(uiPolls, p).options) - 1) :
            /\ cards[p].selectedOption # {i}
            /\ cards' = [cards EXCEPT ![p].selectedOption = {i}]
  /\ UNCHANGED <<account, signer, isLoading, notification, uiPolls, requests,
                 loads, newest, shown, connects>>
  /\ UNCHANGED ledgerVars

\* a handler passes its guard on contract, calls setIsLoading(true) and
\* awaits contract.f(...): it takes the first free slot
StartRequest(kind, p, i) ==
  \E k \in RequestSlots :
    /\ requests[k].pc = "idle"
    /\ \A j \in 1..(k - 1) : requests[j].pc # "idle"
    /\ isLoading' = TRUE
    /\ requests' = [requests EXCEPT ![k] =
                      [kind |-> kind, pc |-> "submit", pollId |-> p, optionIndex |-> i,
                       from |-> signer, acct |-> account, run |-> IdleRun]]

\* PollCard.handleVote up to the await in App.vote; without a contract
\* App.vote returns at once and handleVote goes on to setHasVoted(true)
ClickVote ==
  /\ \E p \in CardIds :
       /\ VoteButtonShown(p)
       /\ ~VoteButtonDisabled(p)
       /\ IF signer = NoAccount
          THEN /\ notification' = Notify("Please connect your wallet first", "error")
               /\ cards' = SetHasVoted(cards, p)
               /\ UNCHANGED <<isLoading, requests>>
          ELSE /\ \E i \in cards[p].selectedOption : StartRequest("vote", p, i)
               /\ UNCHANGED <<notification, cards>>
  /\ UNCHANGED <<account, signer, uiPolls, loads, newest, shown, connects>>
  /\ UNCHANGED ledgerVars

\* App.endPoll up to its await (without a contract it returns at once)
ClickEndPoll ==
  /\ \E p \in CardIds :
       /\ EndButtonShown(p)
       /\ ~EndButtonDisabled
       /\ signer # NoAccount
       /\ StartRequest("endPoll", p, 0)
  /\ UNCHANGED <<account, signer, notification, uiPolls, cards, loads, newest,
                 shown, connects>>
  /\ UNCHANGED ledgerVars

\* CreatePollForm.handleSubmit up to the await in App.createPoll; the model
\* lets the client create ClientMaxPolls polls
SubmitCreatePoll ==
  /\ account # NoAccount
  /\ ~SubmitButtonDisabled
  /\ IF signer = NoAccount
     THEN /\ notification' = Notify("Please connect your wallet first", "error")
          /\ UNCHANGED <<isLoading, requests>>
     ELSE /\ pollCount < ClientMaxPolls
          /\ StartRequest("createPoll", 0, 0)
          /\ UNCHANGED notification
  /\ UNCHANGED <<account, signer, uiPolls, cards, loads, newest, shown, connects>>
  /\ UNCHANGED ledgerVars

\* the catch of a handler, setIsLoading(false) after it, and for a vote
\* handleVote's setHasVoted(true) after the await of onVote
Fail(k, reason) ==
  /\ notification' = Notify(ErrorMessage(requests[k].kind, reason), "error")
  /\ isLoading' = FALSE
  /\ cards' = IF requests[k].kind = "vote" THEN SetHasVoted(cards, requests[k].pollId)
              ELSE cards
  /\ requests' = [requests EXCEPT ![k] = IdleRequest]

\* the answer to await contract.f(...): the call would revert and is
\* refused with its reason, or the user refuses it in the wallet, or the
\* transaction is sent
HostAnswersSubmit ==
  /\ \E k \in RequestSlots :
       /\ requests[k].pc = "submit"
       /\ LET r == CallOf(requests[k], Ledger, now)
          IN \/ r.status # Ok /\ Fail(k, r.status)
             \/ r.status = Ok /\ Fail(k, "")
             \/ /\ r.status = Ok
                /\ notification' = Notify(InfoMessage(requests[k].kind), "info")
                /\ requests' = [requests EXCEPT ![k].pc = "wait"]
                /\ UNCHANGED <<isLoading, cards>>
  /\ UNCHANGED <<account, signer, uiPolls, loads, newest, shown, connects>>
  /\ UNCHANGED ledgerVars

\* the transaction is mined and tx.wait() answers: confirmed, and the
\* handler goes on to await loadPolls(), or reverted, and it goes to its catch
HostMines ==
  /\ \E k \in RequestSlots :
       /\ requests[k].pc = "wait"
       /\ requests[k].kind = "createPoll" => pollCount < ClientMaxPolls
       /\ LET r == CallOf(requests[k], Ledger, now)
          IN /\ Commit(requests[k].kind, r)
             /\ IF r.status = Ok
                THEN /\ notification' = Notify(SuccessMessage(requests[k].kind), "success")
                     /\ requests' = [requests EXCEPT ![k].pc = "load",
                                                     ![k].run = StartedRun(requests[k].acct)]
                     /\ newest' = RequestRun(k)
                     /\ shown' = FALSE
                     /\ UNCHANGED <<isLoading, cards>>
                ELSE /\ Fail(k, "")
                     /\ UNCHANGED <<newest, shown>>
  /\ UNCHANGED <<account, signer, uiPolls, loads, connects>>

\* the host answers the await of the handler's loadPolls(); at its end the
\* handler calls setIsLoading(false) and returns, and handleVote goes on
RequestLoadAnswer ==
  /\ \E k \in RequestSlots :
       /\ requests[k].pc = "load"
       /\ LET r == LoadStep(requests[k].run, Ledger, now)
          IN IF r.result = "more"
             THEN /\ requests' = [requests EXCEPT ![k].run = r.run]
                  /\ UNCHANGED <<uiPolls, cards, isLoading, shown>>
             ELSE LET list == IF r.result = "set" THEN r.polls ELSE uiPolls
                      rendered == Render(cards, list, account)
                  IN /\ uiPolls' = list
                     /\ cards' = IF requests[k].kind = "vote"
                                 THEN SetHasVoted(rendered, requests[k].pollId)
                                 ELSE rendered
                     /\ isLoading' = FALSE
                     /\ requests' = [requests EXCEPT ![k] = IdleRequest]
                     /\ shown' = IF r.result = "set" THEN ShownAfter(RequestRun(k), list)
                                 ELSE shown
  /\ UNCHANGED <<account, signer, notification, loads, newest, connects>>
  /\ UNCHANGED ledgerVars

\* a transaction sent from elsewhere (another session of the creator) that
\* is mined
OthersEndPoll == EndPoll /\ lastCall'.status = Ok

ClientNext ==
  \/ ConnectWallet
  \/ AccountsChanged
  \/ TimerFires
  \/ BackgroundAnswer
  \/ SelectOption
  \/ ClickVote
  \/ ClickEndPoll
  \/ SubmitCreatePoll
  \/ HostAnswersSubmit
  \/ HostMines
  \/ RequestLoadAnswer
  \/ OthersEndPoll

\* the client against the contract; the block time stays that of deployment
ClientSpec == Init /\ [][ClientNext]_vars

\* the host answers every await of a mutating handler in the end
HostAnswers == HostAnswersSubmit \/ HostMines \/ RequestLoadAnswer
ClientLiveSpec == Init /\ [][ClientNext]_vars /\ WF_vars(HostAnswers)
\* ======================================================================
\* Claims
\* ======================================================================
ExistingPolls == 1..pollCount
\* "effectively active": stored flag true and the deadline not reached
EffectivelyActive(p) == polls[p].active /\ now < polls[p].endTime
\* the receipt is that of a successful vote by c on p
SuccessfulVote(call, p, c) ==
  /\ call.op = "vote"
  /\ call.status = Ok
  /\ call.logs[1].pollId = p
  /\ call.logs[1].who = c

\* ---------------------------------------------------------------- C1
C1_SecondVoteRejected ==
  \A p \in ExistingPolls, c \in Identities :
    polls[p].hasVoted[c] =>
      \A i \in OptionIndexes :
        LET r == vote(Ledger, now, c, p, i)
        IN /\ r.status # Ok
           /\ r.st = Ledger
           /\ r.logs = <<>>
           /\ EffectivelyActive(p) => r.status = "Already voted"

C1_VoteStays ==
  \A p \in ExistingPolls, c \in Identities :
    polls[p].hasVoted[c] =>
      /\ ~SuccessfulVote(lastCall', p, c)
      /\ polls'[p].hasVoted[c]
      /\ polls'[p].voterChoice[c] = polls[p].voterChoice[c]
      /\ (lastCall'.op = "vote" /\ lastCall'.status = "Already voted")
           => polls' = polls /\ pollCount' = pollCount

\* C1: once an identity has voted on a poll, every further vote call by it on
\* that poll is rejected (with "Already voted" while the poll is effectively
\* active) and changes nothing; no step is a second successful vote by it on
\* that poll, and its flag and recorded choice never change again.
C1_AtMostOneVote == []C1_SecondVoteRejected /\ [][C1_VoteStays]_vars

\* a second vote by a voter of a still open poll has just been rejected
C1_Witness ==
  /\ lastCall.op = "vote"
  /\ lastCall.status = "Already voted"
  /\ pollCount = 1
  /\ EffectivelyActive(1)
  /\ \E c \in Identities : polls[1].hasVoted[c] /\ polls[1].voterChoice[c] = 1

\* ---------------------------------------------------------------- C2
VotersFor(p, i) == {c \in Identities : polls[p].hasVoted[c] /\ polls[p].voterChoice[c] = i}
Voters(p) == {c \in Identities : polls[p].hasVoted[c]}

\* C2: for every existing poll, voteCounts[i] is the number of identities that
\* have voted and whose recorded choice is i, and getPoll's totalVotes is the
\* number of identities that have voted on the poll.
C2_CountsMatchVoters ==
  \A p \in ExistingPolls :
    /\ \A i \in 0..(Len(polls[p].voteCounts) - 1) :
         polls[p].voteCounts[i + 1] = Cardinality(VotersFor(p, i))
    /\ getPoll(Ledger, now, p).status = Ok
    /\ getPoll(Ledger, now, p).ret.totalVotes = Cardinality(Voters(p))
    /\ \A c \in Voters(p) : polls[p].voterChoice[c] < Len(polls[p].voteCounts)

\* every identity has voted for option 1 of poll 1, another poll has one vote
C2_Witness ==
  /\ pollCount = 2
  /\ VotersFor(1, 1) = Identities
  /\ polls[1].voteCounts[2] = Cardinality(Identities)
  /\ Cardinality(Voters(2)) = 1

\* ---------------------------------------------------------------- C3
\* C3: a vote on a poll whose stored flag is false is rejected with "Poll is
\* not active"; a vote on a poll whose flag is true at now >= endTime is
\* rejected with "Poll has ended" and the flag stays true; and the poll of a
\* successful vote is effectively active.
C3_NoVoteWhenInactive ==
  /\ \A p \in ExistingPolls, c \in Identities, i \in OptionIndexes :
       LET r == vote(Ledger, now, c, p, i)
       IN /\ ~polls[p].active => r.status = "Poll is not active"
          /\ (polls[p].active /\ now >= polls[p].endTime) =>
               r.status = "Poll has ended" /\ r.st.polls[p].active
  /\ \A p \in ExistingPolls, c \in Identities :
       SuccessfulVote(lastCall, p, c) => EffectivelyActive(p)

\* a vote at the very instant now = endTime of a never ended poll was rejected
C3_Witness ==
  /\ lastCall.op = "vote"
  /\ lastCall.status = "Poll has ended"
  /\ pollCount = 1
  /\ polls[1].active
  /\ now = polls[1].endTime
\* ---------------------------------------------------------------- C4
\* the inputs createPoll is specified to accept
ValidCreate(question, opts, duration) ==
  /\ question # ""
  /\ Len(opts) >= 2 /\ Len(opts) <= 10
  /\ \A k \in 1..Len(opts) : opts[k] # ""
  /\ duration >= 1 /\ duration <= 10080

C4_ValidCreateResult ==
  \A sender \in Identities, question \in Questions,
     opts \in OptionLists, duration \in Durations :
    ValidCreate(question, opts, duration) =>
      LET r == createPoll(Ledger, now, sender, question, opts, duration)
          new == r.st.polls[pollCount + 1]
      IN /\ r.status = Ok
         /\ r.ret = pollCount + 1
         /\ r.st.pollCount = pollCount + 1
         /\ new.id = r.ret
         /\ new.question = question
         /\ new.options = opts
         /\ Len(new.voteCounts) = Len(opts)
         /\ \A k \in 1..Len(new.voteCounts) : new.voteCounts[k] = 0
         /\ new.active
         /\ new.creator = sender
         /\ \A c \in Identities : ~new.hasVoted[c]
         /\ \A q \in PollSlots \ {pollCount + 1} : r.st.polls[q] = polls[q]

C4_CreatedPoll ==
  (lastCall.op = "createPoll" /\ lastCall.status = Ok) =>
    LET new == polls[pollCount]
        e == lastCall.logs[1]
    IN /\ pollCount >= 1
       /\ e.pollId = pollCount
       /\ new.id = pollCount
       /\ new.question = e.question
       /\ new.creator = e.who
       /\ new.active
       /\ Len(new.options) = Len(new.voteCounts)
       /\ \A k \in 1..Len(new.voteCounts) : new.voteCounts[k] = 0
       /\ \A c \in Identities : ~new.hasVoted[c]

\* C4: in every reachable state, createPoll with any valid input returns
\* pollCount + 1, raises pollCount by one and stores under that id a poll with
\* the given question and options in order, as many zero counts as options,
\* active true, the caller as creator and no voter; the poll a successful
\* createPoll transaction leaves as the last one is of this form.
C4_CreatePollResult == C4_ValidCreateResult /\ C4_CreatedPoll

\* a second poll has just been created while the first one has a vote
C4_Witness ==
  /\ lastCall.op = "createPoll"
  /\ lastCall.status = Ok
  /\ pollCount = 2
  /\ \E c \in Identities : polls[1].hasVoted[c]

\* ---------------------------------------------------------------- C5
\* the status of a call whose checks are <<passes, message>> pairs tried in
\* order: the message of the first check that does not pass
FirstFailure(checks) ==
  IF \A k \in 1..Len(checks) : checks[k][1] THEN Ok
  ELSE LET first == CHOOSE k \in 1..Len(checks) :
                      /\ ~checks[k][1]
                      /\ \A j \in 1..(k - 1) : checks[j][1]
       IN checks[first][2]

CreateChecks(question, opts, duration) ==
  << <<question # "", "Question cannot be empty">>,
     <<Len(opts) >= 2, "Need at least 2 options">>,
     <<Len(opts) <= 10, "Maximum 10 options allowed">>,
     <<duration > 0, "Duration must be positive">>,
     <<duration <= 10080, "Max duration is 7 days">>,
     <<\A k \in 1..Len(opts) : opts[k] # "", "Option cannot be empty">> >>

\* one input per check, failing that check alone
SingleFaultCreates ==
  { <<"", OptionList(2, {}), 1>>,
    <<"Q", OptionList(1, {}), 1>>,
    <<"Q", OptionList(11, {}), 1>>,
    <<"Q", OptionList(2, {}), 0>>,
    <<"Q", OptionList(2, {}), 10081>>,
    <<"Q", OptionList(2, {2}), 1>> }

\* C5: createPoll's outcome is the error of the first failing check in the
\* order question, >= 2 options, <= 10 options, duration > 0, duration <=
\* 10080, options non-empty (Ok when none fails); the two examples of the
\* claim; and the six single faults give six different errors.
C5_CreateCheckOrder ==
  /\ \A sender \in Identities, question \in Questions,
        opts \in OptionLists, duration \in Durations :
       createPoll(Ledger, now, sender, question, opts, duration).status
         = FirstFailure(CreateChecks(question, opts, duration))
  /\ \A sender \in Identities :
       /\ createPoll(Ledger, now, sender, "Q", OptionList(2, {2}), 0).status
            = "Duration must be positive"
       /\ createPoll(Ledger, now, sender, "", OptionList(1, {}), 1).status
            = "Question cannot be empty"
       /\ Cardinality({createPoll(Ledger, now, sender, x[1], x[2], x[3]).status :
                         x \in SingleFaultCreates} \ {Ok}) = 6

\* a createPoll that passed the first five checks failed the sixth, after a
\* poll had been created
C5_Witness ==
  /\ lastCall.op = "createPoll"
  /\ lastCall.status = "Option cannot be empty"
  /\ pollCount = 1

\* ---------------------------------------------------------------- C6
C6_RejectedCreateIsNoOp ==
  /\ \A sender \in Identities, question \in Questions,
        opts \in OptionLists, duration \in Durations :
       LET r == createPoll(Ledger, now, sender, question, opts, duration)
       IN r.status # Ok => r.st = Ledger /\ r.logs = <<>>
  /\ \A q \in PollSlots : q > pollCount => polls[q] = EmptyPoll
  \* an empty option at position k > 0, then a valid call
  /\ \A sender \in Identities, n \in OptionLengths, k \in 2..MaxShortLen :
       (n >= k /\ n <= 10) =>
         LET r1 == createPoll(Ledger, now, sender, "Q", OptionList(n, {k}), 1)
             r2 == createPoll(r1.st, now, sender, "Q", OptionList(2, {}), 1)
         IN /\ r1.status = "Option cannot be empty"
            /\ r2.status = Ok
            /\ r2.ret = pollCount + 1
            /\ r2.st.polls[r2.ret].options = OptionList(2, {})
            /\ Len(r2.st.polls[r2.ret].voteCounts) = 2

C6_RejectedCreateStep ==
  (lastCall'.op = "createPoll" /\ lastCall'.status # Ok) =>
    /\ pollCount' = pollCount
    /\ polls' = polls
    /\ lastCall'.logs = <<>>

\* C6: a rejected createPoll leaves pollCount and every poll as they were and
\* logs nothing; no storage slot beyond pollCount holds anything; after a
\* rejection for an empty option at position k > 0 the next valid createPoll
\* returns pollCount + 1 and its poll holds only its own options.
C6_NoPartialCreate == []C6_RejectedCreateIsNoOp /\ [][C6_RejectedCreateStep]_vars

\* a createPoll was rejected for an empty option while a poll with a vote exists
C6_Witness ==
  /\ lastCall.op = "createPoll"
  /\ lastCall.status = "Option cannot be empty"
  /\ pollCount = 1
  /\ \E c \in Identities : polls[1].hasVoted[c]
\* ---------------------------------------------------------------- C7
VoteChecks(p, c, i) ==
  << <<p >= 1 /\ p <= pollCount, "Poll does not exist">>,
     <<polls[p].active, "Poll is not active">>,
     <<now < polls[p].endTime, "Poll has ended">>,
     <<~polls[p].hasVoted[c], "Already voted">>,
     <<i < Len(polls[p].options), "Invalid option">> >>

\* C7: vote's outcome is the error of the first failing check in the order
\* poll exists, stored flag true, now < endTime, caller has not voted, index
\* in range (Ok when none fails).  So an ended and expired poll reports "Poll
\* is not active", a voter of a poll no longer effectively active gets the
\* not-active or ended error, and a voter passing an index out of range gets
\* "Already voted".
C7_VoteCheckOrder ==
  /\ \A p \in PollIds, c \in Identities, i \in OptionIndexes :
       vote(Ledger, now, c, p, i).status = FirstFailure(VoteChecks(p, c, i))
  /\ \A p \in ExistingPolls, c \in Identities, i \in OptionIndexes :
       LET status == vote(Ledger, now, c, p, i).status
       IN /\ (~polls[p].active /\ now >= polls[p].endTime) =>
               status = "Poll is not active"
          /\ (polls[p].hasVoted[c] /\ ~EffectivelyActive(p)) =>
               status \in {"Poll is not active", "Poll has ended"}
          /\ (polls[p].hasVoted[c] /\ EffectivelyActive(p)
                /\ i >= Len(polls[p].options)) =>
               status = "Already voted"

\* a vote was rejected with "Poll is not active" on a poll that is ended,
\* expired, and already voted on
C7_Witness ==
  /\ lastCall.op = "vote"
  /\ lastCall.status = "Poll is not active"
  /\ pollCount = 1
  /\ ~polls[1].active
  /\ now >= polls[1].endTime
  /\ \E c \in Identities : polls[1].hasVoted[c]

\* ---------------------------------------------------------------- C8
C8_VoteLogsItsArguments ==
  \A p \in PollIds, c \in Identities, i \in OptionIndexes :
    LET r == vote(Ledger, now, c, p, i)
    IN r.status = Ok => r.logs = <<VoteCast(p, c, i)>>

C8_VoteStep ==
  (lastCall'.op = "vote" /\ lastCall'.status = Ok) =>
    LET p == lastCall'.logs[1].pollId
        c == lastCall'.logs[1].who
        i == lastCall'.logs[1].optionIndex
    IN /\ ~polls[p].hasVoted[c]
       /\ polls'[p].hasVoted[c]
       /\ polls'[p].voterChoice[c] = i
       /\ polls'[p].voteCounts[i + 1] = polls[p].voteCounts[i + 1] + 1
       /\ Len(polls'[p].voteCounts) = Len(polls[p].voteCounts)
       /\ \A k \in 1..Len(polls[p].voteCounts) :
            k # i + 1 => polls'[p].voteCounts[k] = polls[p].voteCounts[k]
       /\ \A d \in Identities \ {c} :
            /\ polls'[p].hasVoted[d] = polls[p].hasVoted[d]
            /\ polls'[p].voterChoice[d] = polls[p].voterChoice[d]
       /\ polls'[p].id = polls[p].id
       /\ polls'[p].question = polls[p].question
       /\ polls'[p].options = polls[p].options
       /\ polls'[p].creator = polls[p].creator
       /\ polls'[p].endTime = polls[p].endTime
       /\ polls'[p].active = polls[p].active
       /\ \A q \in PollSlots \ {p} : polls'[q] = polls[q]
       /\ pollCount' = pollCount

\* C8: a successful vote(p, i) by c logs VoteCast(p, c, i) and changes exactly
\* hasVoted[c] (false to true), voterChoice[c] (to i) and voteCounts[i] (by
\* one) of poll p; the other counts and voter records and the other fields
\* of p, every other poll and pollCount stay as they were.
C8_VoteFrame == []C8_VoteLogsItsArguments /\ [][C8_VoteStep]_vars

\* a vote for option 1 of poll 2 has just succeeded while poll 1 has a vote
C8_Witness ==
  /\ lastCall.op = "vote"
  /\ lastCall.status = Ok
  /\ pollCount = 2
  /\ lastCall.logs[1].pollId = 2
  /\ lastCall.logs[1].optionIndex = 1
  /\ polls[2].voteCounts[2] = 1
  /\ \E c \in Identities : polls[1].hasVoted[c]

\* ---------------------------------------------------------------- C9
\* C9: for a pollId that is 0 or above pollCount, vote, endPoll, getPoll,
\* hasVoted, getVoterChoice and getWinner are all rejected with "Poll does
\* not exist", whatever the caller, the other argument and the time.
C9_MissingPollRejected ==
  \A p \in PollIds :
    ~(p >= 1 /\ p <= pollCount) =>
      /\ \A c \in Identities :
           /\ \A i \in OptionIndexes :
                vote(Ledger, now, c, p, i).status = "Poll does not exist"
           /\ endPoll(Ledger, c, p).status = "Poll does not exist"
           /\ hasVoted(Ledger, p, c).status = "Poll does not exist"
           /\ getVoterChoice(Ledger, p, c).status = "Poll does not exist"
      /\ getPoll(Ledger, now, p).status = "Poll does not exist"
      /\ getWinner(Ledger, p).status = "Poll does not exist"

\* an endPoll on a missing poll was rejected while poll 1 exists
C9_Witness ==
  /\ lastCall.op = "endPoll"
  /\ lastCall.status = "Poll does not exist"
  /\ pollCount = 1
  /\ now > 0

\* --------------------------------------------------------------- C10
\* C10: on an existing, effectively active poll, a vote by an identity that
\* has not voted with an index >= options.length is rejected with "Invalid
\* option" and changes nothing, and a vote by the same identity with any
\* index in range then succeeds.
C10_InvalidOptionRejected ==
  \A p \in ExistingPolls, c \in Identities :
    (EffectivelyActive(p) /\ ~polls[p].hasVoted[c]) =>
      \A i \in OptionIndexes :
        i >= Len(polls[p].options) =>
          LET r == vote(Ledger, now, c, p, i)
          IN /\ r.status = "Invalid option"
             /\ r.st = Ledger
             /\ ~r.st.polls[p].hasVoted[c]
             /\ \A j \in 0..(Len(polls[p].options) - 1) :
                  LET r2 == vote(r.st, now, c, p, j)
                  IN /\ r2.status = Ok
                     /\ r2.st.polls[p].hasVoted[c]
                     /\ r2.st.polls[p].voterChoice[c] = j

\* a vote with an index out of range was rejected on an open poll no one has
\* voted on
C10_Witness ==
  /\ lastCall.op = "vote"
  /\ lastCall.status = "Invalid option"
  /\ pollCount = 1
  /\ EffectivelyActive(1)
  /\ Voters(1) = {}
\* --------------------------------------------------------------- C11
\* the number of times event e was logged
Logged(e) == CopiesIn(e, events)

\* C11: on an existing poll endPoll succeeds exactly when the caller is the
\* creator and the stored flag is true; it then clears the flag, logs
\* PollEnded, getPoll reports active false and a second call by the creator
\* is rejected with "Poll already ended"; any other caller is rejected with
\* "Only creator can end poll", also on a poll already ended.
C11_EndPollOutcome ==
  /\ \A p \in ExistingPolls, c \in Identities :
       LET r == endPoll(Ledger, c, p)
       IN /\ r.status = Ok <=> (c = polls[p].creator /\ polls[p].active)
          /\ c # polls[p].creator => r.status = "Only creator can end poll"
          /\ (c = polls[p].creator /\ ~polls[p].active) =>
               r.status = "Poll already ended"
          /\ r.status = Ok =>
               /\ ~r.st.polls[p].active
               /\ r.logs = <<PollEnded(p)>>
               /\ getPoll(r.st, now, p).status = Ok
               /\ ~getPoll(r.st, now, p).ret.active
               /\ endPoll(r.st, c, p).status = "Poll already ended"
  /\ (lastCall.op = "endPoll" /\ lastCall.status = Ok) =>
       /\ lastCall.logs[1].pollId \in ExistingPolls
       /\ ~polls[lastCall.logs[1].pollId].active
       /\ ~getPoll(Ledger, now, lastCall.logs[1].pollId).ret.active

\* an endPoll by someone else than the creator was rejected on an ended poll
C11_Witness ==
  /\ lastCall.op = "endPoll"
  /\ lastCall.status = "Only creator can end poll"
  /\ pollCount = 1
  /\ ~polls[1].active
  /\ Logged(PollEnded(1)) = 1

\* --------------------------------------------------------------- C12
C12_FlagSurvivesExpiry ==
  \A p \in ExistingPolls :
    /\ Logged(PollEnded(p)) = 0 => polls[p].active
    /\ (polls[p].active /\ now >= polls[p].endTime) =>
         LET r == endPoll(Ledger, polls[p].creator, p)
         IN /\ r.status = Ok
            /\ r.logs = <<PollEnded(p)>>
            /\ ~r.st.polls[p].active
            /\ endPoll(r.st, polls[p].creator, p).status = "Poll already ended"

C12_OnlyEndPollClearsFlag ==
  \A p \in ExistingPolls :
    (polls[p].active /\ ~polls'[p].active) =>
      /\ lastCall'.op = "endPoll"
      /\ lastCall'.status = Ok
      /\ lastCall'.logs = <<PollEnded(p)>>

\* C12: a poll no successful endPoll was called on has its stored flag true,
\* whatever the time; at or after endTime the creator's endPoll on such a
\* poll succeeds and logs PollEnded, and the call after it is rejected with
\* "Poll already ended"; the flag is cleared only by a successful endPoll.
C12_ExpiryKeepsFlag == []C12_FlagSurvivesExpiry /\ [][C12_OnlyEndPollClearsFlag]_vars

\* the creator has just ended a poll whose deadline had passed
C12_Witness ==
  /\ lastCall.op = "endPoll"
  /\ lastCall.status = Ok
  /\ pollCount = 1
  /\ now > polls[1].endTime
  /\ ~polls[1].active
\* --------------------------------------------------------------- C13
\* the times a query is made at: every block time of the model, one block
\* later, and the second before each of them
QueryTimes ==
  {k * MinuteSeconds : k \in 0..(MaxTicks + MaxStoredMinutes + 1)}
    \cup {k * MinuteSeconds - 1 : k \in 1..(MaxTicks + MaxStoredMinutes + 1)}

\* the sum of a sequence of numbers, from its last element down
RECURSIVE SumSeq(_)
SumSeq(q) == IF q = <<>> THEN 0 ELSE q[Len(q)] + SumSeq(SubSeq(q, 1, Len(q) - 1))

C13_Snapshot ==
  \A p \in ExistingPolls :
    /\ \A t \in QueryTimes :
         LET g == getPoll(Ledger, t, p)
         IN /\ g.status = Ok
            /\ g.ret.id = polls[p].id
            /\ g.ret.id = p
            /\ g.ret.question = polls[p].question
            /\ g.ret.options = polls[p].options
            /\ g.ret.voteCounts = polls[p].voteCounts
            /\ g.ret.creator = polls[p].creator
            /\ g.ret.endTime = polls[p].endTime
            /\ g.ret.active = (polls[p].active /\ t < polls[p].endTime)
            /\ g.ret.totalVotes = SumSeq(polls[p].voteCounts)
    /\ polls[p].active =>
         /\ getPoll(Ledger, polls[p].endTime - 1, p).ret.active
         /\ ~getPoll(Ledger, polls[p].endTime, p).ret.active

\* a step that only lets time pass the deadline of a poll whose stored flag
\* is true turns getPoll's active from true to false and nothing else
C13_RecomputedPerQuery ==
  (lastCall'.op = "tick") =>
    \A p \in ExistingPolls :
      (polls[p].active /\ now < polls[p].endTime /\ now' >= polls[p].endTime) =>
        LET before == getPoll(Ledger, now, p).ret
            after == getPoll(Ledger', now', p).ret
        IN /\ Ledger' = Ledger
           /\ before.active
           /\ ~after.active
           /\ after = [before EXCEPT !.active = FALSE]

\* C13: for every existing poll and query time getPoll returns the stored id,
\* question, options, voteCounts, creator and endTime, active equal to
\* (stored active and now < endTime) and totalVotes equal to the sum of
\* voteCounts; with no mutation in between, a query before endTime answers
\* active true and one at or after endTime answers active false.
C13_GetPoll == []C13_Snapshot /\ [][C13_RecomputedPerQuery]_vars

\* time has just reached the deadline of a poll with a vote, never ended
C13_Witness ==
  /\ lastCall.op = "tick"
  /\ pollCount >= 1
  /\ polls[1].active
  /\ now = polls[1].endTime
  /\ getPoll(Ledger, now - MinuteSeconds, 1).ret.active
  /\ ~getPoll(Ledger, now, 1).ret.active
  /\ getPoll(Ledger, now, 1).ret.totalVotes = 1

\* --------------------------------------------------------------- C14
IsStrictlyAscending(q) == \A a, b \in 1..Len(q) : a < b => q[a] < q[b]
Range(q) == {q[k] : k \in 1..Len(q)}

\* a ledger with three polls, built by the contract's own functions at time
\* 0: poll 1 of two minutes, polls 2 and 3 of one minute, poll 3 ended
ThreePolls ==
  LET s1 == createPoll([pollCount |-> 0, polls |-> [i \in PollSlots |-> EmptyPoll]],
                       0, "alice", "Q", OptionList(2, {}), 2).st
      s2 == createPoll(s1, 0, "alice", "Q", OptionList(2, {}), 1).st
      s3 == createPoll(s2, 0, "bob", "Q", OptionList(2, {}), 1).st
  IN endPoll(s3, "bob", 3).st

\* C14: at every time getActivePolls returns exactly the ids in 1..pollCount
\* whose stored flag is true and whose endTime is later than the time, each
\* once and in ascending order; ended polls and expired polls are left out
\* (polls 1 live, 2 expired, 3 ended give [1]); with no polls it is empty.
C14_ActivePolls ==
  /\ \A t \in QueryTimes :
       LET g == getActivePolls(Ledger, t)
       IN /\ g.status = Ok
          /\ IsStrictlyAscending(g.ret)
          /\ Range(g.ret) =
               {i \in ExistingPolls : polls[i].active /\ t < polls[i].endTime}
          /\ pollCount = 0 => g.ret = <<>>
  /\ ThreePolls.pollCount = 3
  /\ ThreePolls.polls[1].active /\ ThreePolls.polls[1].endTime > MinuteSeconds
  /\ ThreePolls.polls[2].active /\ ThreePolls.polls[2].endTime <= MinuteSeconds
  /\ ~ThreePolls.polls[3].active
  /\ getActivePolls(ThreePolls, MinuteSeconds).ret = <<1>>
  /\ getActivePolls(ThreePolls, 0).ret = <<1, 2>>

\* poll 1 has expired without being ended, poll 2 is live, and only poll 2
\* is listed
C14_Witness ==
  /\ pollCount = 2
  /\ polls[1].active /\ now >= polls[1].endTime
  /\ polls[2].active /\ now < polls[2].endTime
  /\ getActivePolls(Ledger, now).ret = <<2>>

\* --------------------------------------------------------------- C15
\* the vote counts of a poll of two or three options with at most two votes
\* per option
SmallCounts == UNION {[1..n -> 0..2] : n \in 2..3}

\* w (0-based) is the lowest index attaining the maximum of counts
IsLowestMax(counts, w) ==
  /\ w + 1 \in 1..Len(counts)
  /\ \A j \in 1..Len(counts) : counts[w + 1] >= counts[j]
  /\ \A j \in 1..w : counts[j] < counts[w + 1]

\* C15: for every existing poll, active or ended, getWinner returns
\* (w, options[w], voteCounts[w]) with w the lowest index attaining the
\* maximum of voteCounts; counts [2,1,2] give index 0 and a poll without
\* votes gives (0, options[0], 0), not an error.
C15_Winner ==
  /\ \A p \in ExistingPolls :
       LET g == getWinner(Ledger, p)
           w == g.ret.winningOption
       IN /\ g.status = Ok
          /\ IsLowestMax(polls[p].voteCounts, w)
          /\ g.ret.winningOptionText = polls[p].options[w + 1]
          /\ g.ret.winningVoteCount = polls[p].voteCounts[w + 1]
          /\ SumSeq(polls[p].voteCounts) = 0 =>
               g.ret = [winningOption |-> 0,
                        winningOptionText |-> polls[p].options[1],
                        winningVoteCount |-> 0]
  /\ \A counts \in SmallCounts :
       LET w == ScanWinner(counts, 0, 0, 0)
       IN IsLowestMax(counts, w[2]) /\ w[1] = counts[w[2] + 1]
  /\ ScanWinner(<<2, 1, 2>>, 0, 0, 0) = <<2, 0>>

\* an ended poll with one vote for each option, the later option's first
C15_Witness ==
  /\ pollCount >= 1
  /\ ~polls[1].active
  /\ polls[1].voteCounts = <<1, 1>>
  /\ getWinner(Ledger, 1).ret.winningOption = 0
  /\ getWinner(Ledger, 1).ret.winningVoteCount = 1
\* --------------------------------------------------------------- C16
\* the option indexes c's successful votes on p were cast for
VotedIndexes(p, c) == {k \in OptionIndexes : Logged(VoteCast(p, c, k)) >= 1}

C16_VoterRecord ==
  \A p \in ExistingPolls, c \in Identities :
    LET h == hasVoted(Ledger, p, c)
        g == getVoterChoice(Ledger, p, c)
    IN /\ h.status = Ok
       /\ h.ret = (VotedIndexes(p, c) # {})
       /\ ~h.ret => g.status = "Address has not voted"
       /\ h.ret => /\ g.status = Ok
                   /\ VotedIndexes(p, c) = {g.ret}
       /\ SuccessfulVote(lastCall, p, c) =>
            /\ h.ret
            /\ g.status = Ok
            /\ g.ret = lastCall.logs[1].optionIndex

C16_VoterRecordStep ==
  \A p \in ExistingPolls, c \in Identities :
    /\ polls[p].hasVoted[c] =>
         /\ polls'[p].hasVoted[c]
         /\ polls'[p].voterChoice[c] = polls[p].voterChoice[c]
    /\ (~polls[p].hasVoted[c] /\ polls'[p].hasVoted[c]) =>
         /\ SuccessfulVote(lastCall', p, c)
         /\ lastCall'.logs[1].optionIndex = polls'[p].voterChoice[c]

\* C16: hasVoted answers false for an identity until its successful vote on
\* the poll and true in every state after it; while it is false
\* getVoterChoice is rejected with "Address has not voted"; after a
\* successful vote for index k getVoterChoice returns k in every later
\* state, also when the poll is ended or expired.
C16_HasVotedAndChoice == []C16_VoterRecord /\ [][C16_VoterRecordStep]_vars

\* on an ended and expired poll bob's choice of option 1 is still returned,
\* and alice, who never voted, gets the rejection and not option 0
C16_Witness ==
  /\ pollCount >= 1
  /\ ~polls[1].active
  /\ now >= polls[1].endTime
  /\ hasVoted(Ledger, 1, "bob").ret
  /\ getVoterChoice(Ledger, 1, "bob").ret = 1
  /\ ~hasVoted(Ledger, 1, "alice").ret
  /\ getVoterChoice(Ledger, 1, "alice").status = "Address has not voted"

\* --------------------------------------------------------------- C17
C17_ActiveAtCreation ==
  /\ (lastCall.op = "createPoll" /\ lastCall.status = Ok) => polls[pollCount].active
  /\ \A sender \in Identities, question \in Questions,
        opts \in OptionLists, duration \in Durations :
       LET r == createPoll(Ledger, now, sender, question, opts, duration)
       IN r.status = Ok => r.st.polls[pollCount + 1].active
  /\ \A p \in ExistingPolls : Logged(PollEnded(p)) >= 1 => ~polls[p].active

C17_NeverReactivated ==
  /\ \A p \in ExistingPolls : ~polls[p].active => ~polls'[p].active
  /\ \A p \in PollSlots : (p > pollCount /\ p <= pollCount') => polls'[p].active

\* C17: the stored active flag of a poll is true at creation and changes
\* only from true to false: no step takes a poll whose stored flag is false
\* to a state in which it is true.
C17_ActiveOnlyFalls == []C17_ActiveAtCreation /\ [][C17_NeverReactivated]_vars

\* a second poll was created after the first one was ended, and the first
\* one is still ended
C17_Witness ==
  /\ lastCall.op = "createPoll"
  /\ lastCall.status = Ok
  /\ pollCount = 2
  /\ Logged(PollEnded(1)) = 1
  /\ ~polls[1].active
  /\ polls[2].active

\* --------------------------------------------------------------- C18
WellFormedOptions(poll) ==
  /\ Len(poll.options) = Len(poll.voteCounts)
  /\ Len(poll.options) >= MinOptions
  /\ Len(poll.options) <= MaxOptions
  /\ \A k \in 1..Len(poll.options) : poll.options[k] # ""

C18_OptionsWellFormed ==
  /\ \A p \in ExistingPolls : WellFormedOptions(polls[p])
  /\ \A sender \in Identities, question \in Questions,
        opts \in OptionLists, duration \in Durations :
       LET r == createPoll(Ledger, now, sender, question, opts, duration)
       IN r.status = Ok =>
            /\ WellFormedOptions(r.st.polls[pollCount + 1])
            /\ r.st.polls[pollCount + 1].options = opts

C18_OptionsFixed ==
  \A p \in ExistingPolls :
    /\ polls'[p].options = polls[p].options
    /\ Len(polls'[p].voteCounts) = Len(polls[p].voteCounts)

\* C18: every poll with id in 1..pollCount has as many voteCounts as
\* options, between 2 and 10 of them, each option text non-empty, and no
\* step changes the options or the number of counts of an existing poll.
C18_OptionsShape == []C18_OptionsWellFormed /\ [][C18_OptionsFixed]_vars

\* both identities have voted on a poll, ended since, and its two options
\* and two counts are still there
C18_Witness ==
  /\ pollCount >= 1
  /\ ~polls[1].active
  /\ SumSeq(polls[1].voteCounts) = 2
  /\ Len(polls[1].options) = 2
  /\ Len(polls[1].voteCounts) = 2
  /\ lastCall.op = "endPoll"

\* --------------------------------------------------------------- C19
\* C19: a successfully created poll has endTime equal to the creation
\* timestamp plus durationMinutes * 60, so the distance is between 60 and
\* 604800 seconds and the poll is effectively active at creation; the
\* PollCreated event carries the stored endTime.
C19_EndTime ==
  /\ \A sender \in Identities, question \in Questions,
        opts \in OptionLists, duration \in Durations :
       LET r == createPoll(Ledger, now, sender, question, opts, duration)
           new == r.st.polls[pollCount + 1]
       IN r.status = Ok =>
            /\ new.endTime = now + duration * 60
            /\ new.endTime - now >= 60
            /\ new.endTime - now <= 604800
            /\ new.active /\ now < new.endTime
            /\ getPoll(r.st, now, pollCount + 1).ret.active
            /\ r.logs[1].endTime = new.endTime
  /\ (lastCall.op = "createPoll" /\ lastCall.status = Ok) =>
       /\ polls[pollCount].endTime - now >= 60
       /\ polls[pollCount].endTime - now <= 604800
       /\ EffectivelyActive(pollCount)
       /\ lastCall.logs[1].endTime = polls[pollCount].endTime
       /\ Logged(PollCreated(pollCount, polls[pollCount].question,
                             polls[pollCount].creator, polls[pollCount].endTime)) = 1

\* a poll of one minute has just been created at time 60
C19_Witness ==
  /\ lastCall.op = "createPoll"
  /\ lastCall.status = Ok
  /\ now = 60
  /\ polls[pollCount].endTime = 120
  /\ lastCall.logs[1].endTime = 120

\* --------------------------------------------------------------- C20
\* the number of logged events that satisfy Test
CountEvents(Test(_)) ==
  BagCardinality([e \in {x \in BagToSet(events) : Test(x)} |-> events[e]])

IsPollCreated(e) == e.name = "PollCreated"

C20_OneEventPerCall ==
  /\ \A sender \in Identities, question \in Questions,
        opts \in OptionLists, duration \in Durations :
       LET r == createPoll(Ledger, now, sender, question, opts, duration)
       IN IF r.status = Ok
          THEN r.logs = <<PollCreated(pollCount + 1, question, sender,
                                      r.st.polls[pollCount + 1].endTime)>>
          ELSE r.logs = <<>>
  /\ \A sender \in Identities, p \in PollIds, i \in OptionIndexes :
       LET r == vote(Ledger, now, sender, p, i)
       IN IF r.status = Ok THEN r.logs = <<VoteCast(p, sender, i)>>
          ELSE r.logs = <<>>
  /\ \A sender \in Identities, p \in PollIds :
       LET r == endPoll(Ledger, sender, p)
       IN IF r.status = Ok THEN r.logs = <<PollEnded(p)>>
          ELSE r.logs = <<>>
  /\ lastCall.status = Ok =>
       Len(lastCall.logs) = IF lastCall.op \in {"createPoll", "vote", "endPoll"}
                            THEN 1 ELSE 0
  /\ lastCall.status # Ok => lastCall.logs = <<>>

C20_EventCounts ==
  /\ CountEvents(IsPollCreated) = pollCount
  /\ \A p \in ExistingPolls :
       /\ Logged(PollCreated(p, polls[p].question, polls[p].creator,
                             polls[p].endTime)) = 1
       /\ LET IsVoteOnP(e) == e.name = "VoteCast" /\ e.pollId = p
          IN CountEvents(IsVoteOnP) = getPoll(Ledger, now, p).ret.totalVotes
       /\ LET IsEndOfP(e) == e.name = "PollEnded" /\ e.pollId = p
          IN /\ CountEvents(IsEndOfP) <= 1
             /\ CountEvents(IsEndOfP) = Logged(PollEnded(p))
  /\ \A e \in BagToSet(events) : e.pollId \in ExistingPolls

\* C20: every successful createPoll, vote and endPoll logs exactly one
\* event, PollCreated(new id, question, caller, endTime), VoteCast(pollId,
\* caller, optionIndex) and PollEnded(pollId), and every rejected call logs
\* none; so the log holds pollCount PollCreated events, as many VoteCast
\* events for a poll as its totalVotes, and at most one PollEnded per poll.
C20_Events == C20_OneEventPerCall /\ C20_EventCounts

\* two polls, two votes on the first, the first ended, and a rejected call
C20_Witness ==
  /\ lastCall.status # Ok
  /\ lastCall.op = "vote"
  /\ pollCount = 2
  /\ CountEvents(IsPollCreated) = 2
  /\ getPoll(Ledger, now, 1).ret.totalVotes = 2
  /\ Logged(PollEnded(1)) = 1
  /\ BagCardinality(events) = 5
\* --------------------------------------------------------------- C21
\* the errors that report each reason of rejection
ErrorsOf ==
  [notFound |-> {"Poll does not exist"},
   notActive |-> {"Poll is not active", "Poll has ended"},
   duplicate |-> {"Already voted"},
   invalidOption |-> {"Invalid option"},
   notCreator |-> {"Only creator can end poll"},
   alreadyEnded |-> {"Poll already ended"}]

\* the reason a vote or an endPoll is rejected for: that of its first
\* failing check (Ok when none fails)
VoteReason(p, c, i) ==
  FirstFailure(<< <<p >= 1 /\ p <= pollCount, "notFound">>,
                  <<polls[p].active /\ now < polls[p].endTime, "notActive">>,
                  <<~polls[p].hasVoted[c], "duplicate">>,
                  <<i < Len(polls[p].options), "invalidOption">> >>)

EndReason(p, c) ==
  FirstFailure(<< <<p >= 1 /\ p <= pollCount, "notFound">>,
                  <<c = polls[p].creator, "notCreator">>,
                  <<polls[p].active, "alreadyEnded">> >>)

C21_RejectedCallIsNoOp ==
  /\ \A p \in PollIds, c \in Identities :
       /\ \A i \in OptionIndexes :
            LET r == vote(Ledger, now, c, p, i)
            IN /\ r.status = Ok <=> VoteReason(p, c, i) = Ok
               /\ r.status # Ok =>
                    /\ r.st = Ledger
                    /\ r.logs = <<>>
                    /\ r.status \in ErrorsOf[VoteReason(p, c, i)]
       /\ LET r == endPoll(Ledger, c, p)
          IN /\ r.status = Ok <=> EndReason(p, c) = Ok
             /\ r.status # Ok =>
                  /\ r.st = Ledger
                  /\ r.logs = <<>>
                  /\ r.status \in ErrorsOf[EndReason(p, c)]
  /\ \A a, b \in DOMAIN ErrorsOf : a # b => ErrorsOf[a] \cap ErrorsOf[b] = {}
  /\ \A a \in DOMAIN ErrorsOf : Ok \notin ErrorsOf[a]

C21_RejectedCallStep ==
  (lastCall'.op \in {"vote", "endPoll"} /\ lastCall'.status # Ok) =>
    /\ pollCount' = pollCount
    /\ polls' = polls
    /\ events' = events

\* C21: a rejected vote or endPoll leaves pollCount and every poll's fields,
\* counts and voter records as they were, and the errors for a missing poll,
\* a poll not active or expired, a duplicate vote, an invalid option, a
\* caller who is not the creator and a poll already ended are pairwise
\* different.
C21_RejectionsAtomic == []C21_RejectedCallIsNoOp /\ [][C21_RejectedCallStep]_vars

\* the creator's second endPoll was rejected on a poll with a vote, with a
\* second poll in the ledger
C21_Witness ==
  /\ lastCall.op = "endPoll"
  /\ lastCall.status = "Poll already ended"
  /\ pollCount = 2
  /\ SumSeq(polls[1].voteCounts) >= 1
  /\ ~polls[1].active
\* --------------------------------------------------------------- C23
C23_EndPollResult ==
  \A p \in ExistingPolls, c \in Identities :
    LET r == endPoll(Ledger, c, p)
    IN r.status = Ok => r.st = [Ledger EXCEPT !.polls[p].active = FALSE]

C23_FrameStep ==
  /\ \A p \in ExistingPolls :
       /\ polls'[p].id = polls[p].id
       /\ polls'[p].question = polls[p].question
       /\ polls'[p].options = polls[p].options
       /\ polls'[p].creator = polls[p].creator
       /\ polls'[p].endTime = polls[p].endTime
  /\ (lastCall'.op = "endPoll" /\ lastCall'.status = Ok) =>
       LET p == lastCall'.logs[1].pollId
       IN /\ polls[p].active
          /\ polls'[p] = [polls[p] EXCEPT !.active = FALSE]
          /\ polls'[p].voteCounts = polls[p].voteCounts
          /\ polls'[p].hasVoted = polls[p].hasVoted
          /\ polls'[p].voterChoice = polls[p].voterChoice
          /\ \A q \in PollSlots \ {p} : polls'[q] = polls[q]
          /\ pollCount' = pollCount

\* C23: no step changes the id, question, options, creator or endTime of an
\* existing poll, and a successful endPoll changes only the stored active
\* flag of its poll: that poll's voteCounts and voter records, every other
\* poll and pollCount stay as they were.
C23_CreatedFieldsFixed == []C23_EndPollResult /\ [][C23_FrameStep]_vars

\* a poll with a vote has just been ended while another poll exists
C23_Witness ==
  /\ lastCall.op = "endPoll"
  /\ lastCall.status = Ok
  /\ pollCount = 2
  /\ SumSeq(polls[lastCall.logs[1].pollId].voteCounts) >= 1

\* --------------------------------------------------------------- C24
C24_IdsAreOneToPollCount ==
  /\ \A i \in PollSlots :
       /\ i \in ExistingPolls =>
            /\ polls[i].id = i
            /\ polls[i] # EmptyPoll
            /\ getPoll(Ledger, now, i).status = Ok
            /\ getPoll(Ledger, now, i).ret.id = i
       /\ i \notin ExistingPolls =>
            /\ polls[i] = EmptyPoll
            /\ getPoll(Ledger, now, i).status = "Poll does not exist"
  /\ pollCount = CountEvents(IsPollCreated)
  /\ \A sender \in Identities, question \in Questions,
        opts \in OptionLists, duration \in Durations :
       LET r == createPoll(Ledger, now, sender, question, opts, duration)
       IN /\ r.status = Ok =>
               /\ r.st.pollCount = pollCount + 1
               /\ r.ret = pollCount + 1
               /\ r.st.polls[pollCount + 1].id = pollCount + 1
               /\ \A i \in ExistingPolls : r.st.polls[i] = polls[i]
          /\ r.status # Ok => r.st.pollCount = pollCount
  /\ \A c \in Identities, p \in PollIds :
       /\ endPoll(Ledger, c, p).st.pollCount = pollCount
       /\ \A i \in OptionIndexes : vote(Ledger, now, c, p, i).st.pollCount = pollCount

C24_PollCountStep ==
  /\ pollCount' >= pollCount
  /\ pollCount' # pollCount =>
       /\ pollCount' = pollCount + 1
       /\ lastCall'.op = "createPoll"
       /\ lastCall'.status = Ok
       /\ lastCall'.logs[1].pollId = pollCount'
  /\ (lastCall'.op = "createPoll" /\ lastCall'.status = Ok) => pollCount' = pollCount + 1
  /\ \A i \in ExistingPolls : polls'[i].id = i

\* C24: pollCount starts at 0, never decreases and grows, by exactly one,
\* only in a successful createPoll; the existing polls are those with ids
\* 1..pollCount, polls[i].id = i for each, the slots outside hold nothing,
\* and no step removes a poll or changes its id.
C24_SequentialIds ==
  (pollCount = 0) /\ []C24_IdsAreOneToPollCount /\ [][C24_PollCountStep]_vars

\* two polls, the first one ended, still under ids 1 and 2
C24_Witness ==
  /\ pollCount = 2
  /\ polls[1].id = 1
  /\ polls[2].id = 2
  /\ ~polls[1].active
  /\ lastCall.op = "endPoll"
  /\ lastCall.status = Ok

\* --------------------------------------------------------------- C25
C25_ReadOnlyStep ==
  \A p \in ExistingPolls :
    /\ ~EffectivelyActive(p) =>
         /\ polls'[p].voteCounts = polls[p].voteCounts
         /\ polls'[p].hasVoted = polls[p].hasVoted
         /\ polls'[p].voterChoice = polls[p].voterChoice
         /\ getWinner(Ledger', p) = getWinner(Ledger, p)
         /\ ~(polls'[p].active /\ now' < polls'[p].endTime)
    /\ Logged(PollEnded(p)) >= 1 =>
         /\ \A c \in Identities, k \in OptionIndexes :
              CopiesIn(VoteCast(p, c, k), events') = CopiesIn(VoteCast(p, c, k), events)
         /\ ~(/\ lastCall'.op = "vote"
              /\ lastCall'.status = Ok
              /\ lastCall'.logs[1].pollId = p)

\* C25: from a state in which a poll is not effectively active (ended, or
\* the time has reached endTime) no step changes its voteCounts, its voter
\* records or getWinner's answer, or makes it effectively active again, and
\* no VoteCast for a poll is logged once its PollEnded is.
C25_EndedPollReadOnly == [][C25_ReadOnlyStep]_vars

\* a vote was rejected on a poll that expired, never ended, with one vote
C25_Witness ==
  /\ lastCall.op = "vote"
  /\ lastCall.status = "Poll has ended"
  /\ pollCount = 1
  /\ polls[1].active
  /\ SumSeq(polls[1].voteCounts) = 1

\* --------------------------------------------------------------- C26
C26_ActivityStep ==
  /\ now' >= now
  \* the views read only the ledger and the time
  /\ (Ledger' # Ledger \/ now' # now) =>
       LET before == Range(getActivePolls(Ledger, now).ret)
           after == Range(getActivePolls(Ledger', now').ret)
       IN /\ \A p \in ExistingPolls :
               /\ ~getPoll(Ledger, now, p).ret.active =>
                    ~getPoll(Ledger', now', p).ret.active
               /\ p \notin before => p \notin after
          /\ after \ before \subseteq (pollCount + 1)..pollCount'

\* getPoll's flag and membership in getActivePolls agree
C26_ViewsAgree ==
  \A p \in ExistingPolls :
    getPoll(Ledger, now, p).ret.active <=> p \in Range(getActivePolls(Ledger, now).ret)

\* C26: time does not decrease, and a poll for which getPoll answers active
\* false (or that getActivePolls leaves out) is answered active false and
\* left out after every step; getActivePolls gains only ids of polls
\* created in the step.
C26_ActivityMonotone == []C26_ViewsAgree /\ [][C26_ActivityStep]_vars

\* a second poll has just been created and is the only one listed, the
\* first one having been ended
C26_Witness ==
  /\ lastCall.op = "createPoll"
  /\ lastCall.status = Ok
  /\ pollCount = 2
  /\ ~polls[1].active
  /\ getActivePolls(Ledger, now).ret = <<2>>
  /\ ~getPoll(Ledger, now, 1).ret.active

\* --------------------------------------------------------------- C27
C27_VoteIsPerPoll ==
  \A p \in ExistingPolls, c \in Identities :
    /\ \A i \in OptionIndexes :
         LET r == vote(Ledger, now, c, p, i)
         IN \A q \in ExistingPolls \ {p} :
              /\ r.st.polls[q] = polls[q]
              /\ hasVoted(r.st, q, c) = hasVoted(Ledger, q, c)
              /\ \A j \in OptionIndexes :
                   vote(r.st, now, c, q, j).status = vote(Ledger, now, c, q, j).status
    /\ (EffectivelyActive(p) /\ ~polls[p].hasVoted[c]) =>
         \A i \in 0..(Len(polls[p].options) - 1) :
           LET r == vote(Ledger, now, c, p, i)
           IN /\ r.status = Ok
              /\ \A j \in OptionIndexes : vote(r.st, now, c, p, j).status = "Already voted"

C27_OtherPollsStep ==
  (lastCall'.op = "vote") =>
    \A q \in ExistingPolls :
      (lastCall'.status # Ok \/ lastCall'.logs[1].pollId # q) => polls'[q] = polls[q]

\* C27: a vote on poll p, accepted or rejected, changes nothing of any poll
\* q # p, so neither hasVoted nor the outcome of a vote on q; whoever has
\* not voted on an effectively active poll, its creator included and
\* whatever they did on other polls, gets one vote accepted and the next
\* rejected with "Already voted".
C27_OneVotePerPoll == []C27_VoteIsPerPoll /\ [][C27_OtherPollsStep]_vars

\* the creator of both polls has voted on both
C27_Witness ==
  /\ lastCall.op = "vote"
  /\ lastCall.status = Ok
  /\ pollCount = 2
  /\ \E c \in Identities :
       /\ polls[1].creator = c /\ polls[2].creator = c
       /\ polls[1].hasVoted[c] /\ polls[2].hasVoted[c]

\* --------------------------------------------------------------- C28
\* the mutating handlers that have called setIsLoading(true) and not yet
\* setIsLoading(false)
InFlight == {k \in RequestSlots : requests[k].pc # "idle"}

C28_OneRequest ==
  /\ Cardinality(InFlight) <= 1
  /\ isLoading <=> InFlight # {}
  /\ isLoading =>
       /\ SubmitButtonDisabled
       /\ EndButtonDisabled
       /\ \A p \in CardIds : VoteButtonDisabled(p)

\* a handler that returns, by whichever path, has set isLoading to false,
\* and isLoading falls only when a handler returns
C28_ReturnStep ==
  /\ \A k \in RequestSlots :
       (requests[k].pc # "idle" /\ requests'[k].pc = "idle") => ~isLoading'
  /\ (isLoading /\ ~isLoading') =>
       \E k \in RequestSlots : requests[k].pc # "idle" /\ requests'[k].pc = "idle"

\* C28: under ClientLiveSpec (the host answers every await of a handler in
\* the end) isLoading, once true, becomes false again, on the path of a
\* rejected submission, of a failed confirmation and of a confirmed
\* transaction alike; while it is true the create, vote and end buttons are
\* disabled, and at most one mutating handler of the client is in flight.
C28_LoadingEnds ==
  /\ []C28_OneRequest
  /\ [][C28_ReturnStep]_vars
  /\ (isLoading ~> ~isLoading)

\* a vote sent by the client was mined and reverted, and its handler has
\* returned through its catch
C28_Witness ==
  /\ lastCall.op = "vote"
  /\ lastCall.status # Ok
  /\ notification = Notify(ErrorMessage("vote", ""), "error")
  /\ ~isLoading
  /\ InFlight = {}

\* --------------------------------------------------------------- C22
MutationKinds == {"createPoll", "vote", "endPoll"}

\* tx.wait() has resolved for the handler in slot k
Confirmed(k) == requests[k].pc = "load"

\* a mounted card goes from "has not voted" to "has voted" in the step
SwitchesToVoted(p) ==
  /\ cards[p].mounted /\ ~cards[p].hasVoted
  /\ cards'[p].mounted /\ cards'[p].hasVoted

\* the step shows the success notification of a mutating action
ShowsSuccess ==
  /\ notification' # notification
  /\ \E kind \in MutationKinds : notification' = Notify(SuccessMessage(kind), "success")

C22_SuccessStep ==
  /\ ShowsSuccess =>
       \E k \in RequestSlots :
         /\ requests[k].pc = "wait" /\ Confirmed(k)'
         /\ lastCall'.op = requests[k].kind /\ lastCall'.status = Ok
         /\ notification' = Notify(SuccessMessage(requests[k].kind), "success")
  /\ \A p \in CardIds :
       SwitchesToVoted(p) =>
         \E k \in RequestSlots :
           /\ requests[k].kind = "vote" /\ requests[k].pollId = p
           /\ Confirmed(k)
  /\ \A k \in RequestSlots :
       (requests[k].pc \in {"submit", "wait"} /\ requests'[k].pc = "idle") =>
         /\ ~ShowsSuccess
         /\ \A p \in CardIds : ~SwitchesToVoted(p)

\* C22: the success notification of a mutating action is shown only in the
\* step in which tx.wait() resolves with the transaction confirmed, a
\* mounted card switches to "has voted" only for a vote on its poll whose
\* tx.wait() has resolved, and a handler that ends because the submission
\* was rejected or the transaction failed shows no success notification
\* and marks no card as voted.
C22_SuccessOnlyAfterConfirmation == [][C22_SuccessStep]_vars

\* --------------------------------------------------------------- C29
\* no run of loadPolls is in flight, in the background or in a handler
NoRefreshInFlight ==
  /\ \A k \in LoadSlots : loads[k].pc = "idle"
  /\ \A k \in RequestSlots : requests[k].pc # "load"

\* C29: once no refresh is in flight, the displayed poll list is the one
\* read by the refresh that started last, whatever the order in which the
\* overlapping runs of loadPolls (timer, contract or account change, after
\* a confirmed mutation) finished.
C29_NewestRefreshShown == (NoRefreshInFlight /\ newest # NoRun) => shown

\* --------------------------------------------------------------- C30
\* a run of loadPolls made for the connected account ends in the step
RefreshCompletes ==
  \/ \E k \in LoadSlots :
       /\ loads[k].pc # "idle" /\ loads'[k].pc = "idle"
       /\ loads[k].acct = account'
  \/ \E k \in RequestSlots :
       /\ requests[k].pc = "load" /\ requests'[k].pc = "idle"
       /\ requests[k].run.acct = account'

C30_RefreshStep ==
  RefreshCompletes =>
    \A p \in CardIds :
      cards'[p].mounted =>
        cards'[p].hasVoted = hasVoted([pollCount |-> pollCount', polls |-> polls'],
                                      p, account').ret

\* C30: after every completed refresh made for the connected account, the
\* "has voted" state of each poll card on screen equals the ledger's
\* hasVoted(pollId, account), also when the account has changed to one that
\* has not voted on the poll.
C30_CardMatchesLedger == [][C30_RefreshStep]_vars
====
